---- MODULE Spec2Model ----
(***************************************************************************)
(* Model of the claim-processing pipeline of LLM_hallucination_prevention: *)
(* the FastAPI chat service (backend/main.py), the ContradictionDetector,  *)
(* the WikipediaVerifier and the ResponseFormatter.                        *)
(*                                                                         *)
(* Python strings are modelled as sequences of characters (one-character   *)
(* strings; characters that TLA+ cannot write directly carry a name, such  *)
(* as "dq" for the double quote or "emoji_ok" for U+2705).  The regular    *)
(* expressions of the source are modelled by operators that compute the    *)
(* same leftmost match on these sequences.                                 *)
(***************************************************************************)
EXTENDS Integers, Sequences, FiniteSets, TLC

VARIABLES
    conversations,   \* main.py: conversations, session id -> list of entries
    session_facts,   \* ContradictionDetector.session_facts, session id -> list of facts
    req,             \* the chat requests in flight: position in the handler and locals
    call,            \* the last operation applied and its arguments
    result,          \* what that operation returned
    cleared          \* history variable: per session id, whether clear_session ran
                     \* since the last add_facts

vars == <<conversations, session_facts, req, call, result, cleared>>

----------------------------------------------------------------------------
(* Characters and Python's str / re primitives                             *)

UpperChars == {"A","B","C","D","E","F","G","H","I","J","K","L","M",
               "N","O","P","Q","R","S","T","U","V","W","X","Y","Z"}
LowerChars == {"a","b","c","d","e","f","g","h","i","j","k","l","m",
               "n","o","p","q","r","s","t","u","v","w","x","y","z"}
DigitChars == {"0","1","2","3","4","5","6","7","8","9"}
Whitespace == {" ", "nl", "tab"}
\* \w of the re module
WordChars == UpperChars \cup LowerChars \cup DigitChars \cup {"_"}

UpperSeq == <<"A","B","C","D","E","F","G","H","I","J","K","L","M",
              "N","O","P","Q","R","S","T","U","V","W","X","Y","Z">>
LowerSeq == <<"a","b","c","d","e","f","g","h","i","j","k","l","m",
              "n","o","p","q","r","s","t","u","v","w","x","y","z">>
DigitSeq == <<"0","1","2","3","4","5","6","7","8","9">>

\* str.lower() on one character
LowerChar(c) ==
    IF c \in UpperChars
    THEN LowerSeq[CHOOSE i \in 1..26 : UpperSeq[i] = c]
    ELSE c

\* str.lower()
Lower(s) == [i \in 1..Len(s) |-> LowerChar(s[i])]

\* int(c) for a digit character
DigitVal(c) == (CHOOSE i \in 1..10 : DigitSeq[i] = c) - 1

\* sub in s
Contains(s, sub) ==
    \E i \in 1..(Len(s) + 1 - Len(sub)) : SubSeq(s, i, i + Len(sub) - 1) = sub

\* s.replace(c, '') / re.sub('[..]', '', s): drop every character of cs
Strip(s, cs) == SelectSeq(s, LAMBDA c : c \notin cs)

\* last index j >= i such that s[i..j] lies in cs (i - 1 when s[i] does not)
RECURSIVE RunEnd(_, _, _)
RunEnd(s, i, cs) ==
    IF i <= Len(s) /\ s[i] \in cs THEN RunEnd(s, i + 1, cs) ELSE i - 1

\* last index of the run of characters outside cs that starts at i
RECURSIVE RunEndNot(_, _, _)
RunEndNot(s, i, cs) ==
    IF i <= Len(s) /\ s[i] \notin cs THEN RunEndNot(s, i + 1, cs) ELSE i - 1

\* str.split() without arguments: the whitespace-separated words, in order
RECURSIVE SplitFrom(_, _)
SplitFrom(s, i) ==
    IF i > Len(s) THEN <<>>
    ELSE IF s[i] \in Whitespace THEN SplitFrom(s, i + 1)
    ELSE LET e == RunEndNot(s, i, Whitespace)
         IN  <<SubSeq(s, i, e)>> \o SplitFrom(s, e + 1)

Split(s) == SplitFrom(s, 1)

\* lst[:n]
Take(lst, n) == SubSeq(lst, 1, IF Len(lst) < n THEN Len(lst) ELSE n)

\* set(lst)
Range(lst) == {lst[i] : i \in 1..Len(lst)}

\* re.search(r'([cs]+)', s).group(1): the first maximal run of characters of
\* cs, or <<>> when there is none (the code's `if match`)
FirstRun(s, cs) ==
    IF \E i \in 1..Len(s) : s[i] \in cs
    THEN LET i == CHOOSE k \in 1..Len(s) :
                      s[k] \in cs /\ \A m \in 1..(k - 1) : s[m] \notin cs
         IN  SubSeq(s, i, RunEnd(s, i, cs))
    ELSE <<>>

RECURSIVE Pow10(_)
Pow10(n) == IF n = 0 THEN 1 ELSE 10 * Pow10(n - 1)

\* the integer written by a sequence of digit characters
RECURSIVE DigitsToInt(_)
DigitsToInt(ds) ==
    IF ds = <<>> THEN 0
    ELSE 10 * DigitsToInt(SubSeq(ds, 1, Len(ds) - 1)) + DigitVal(ds[Len(ds)])

\* str(n) for n >= 0
RECURSIVE IntToStr(_)
IntToStr(n) ==
    IF n < 10 THEN <<DigitSeq[n + 1]>>
    ELSE IntToStr(n \div 10) \o <<DigitSeq[(n % 10) + 1]>>

\* float(run) for a run matched by [\d.]+ : Python accepts it when it holds
\* at most one "." and at least one digit, and raises ValueError otherwise.
\* The value is kept exact, as the integer m and the number f of fraction
\* digits: value = m / 10^f.  None is the record with ok = FALSE.
ParseFloat(run) ==
    LET dots   == Len(SelectSeq(run, LAMBDA c : c = "."))
        digits == SelectSeq(run, LAMBDA c : c \in DigitChars)
        dot    == IF dots = 1 THEN CHOOSE i \in 1..Len(run) : run[i] = "." ELSE Len(run) + 1
    IN  IF dots <= 1 /\ digits # <<>>
        THEN [ok |-> TRUE, m |-> DigitsToInt(digits), f |-> Len(run) + 1 - dot - (IF dots = 1 THEN 1 ELSE 0), k |-> 0]
        ELSE [ok |-> FALSE]

----------------------------------------------------------------------------
(* ContradictionDetector (backend/contradiction_detector.py)               *)

\* Python's None, and an exception leaving a function
None == [type |-> "None"]
Raise(e) == [type |-> "raise", exc |-> e]

S_billion == <<"b","i","l","l","i","o","n">>
S_million == <<"m","i","l","l","i","o","n">>
S_thousand == <<"t","h","o","u","s","a","n","d">>
S_pct_difference == <<"%"," ","d","i","f","f","e","r","e","n","c","e">>
S_years_apart == <<" ","y","e","a","r","s"," ","a","p","a","r","t">>
S_msg_numeric == <<"C","o","n","t","r","a","d","i","c","t","i","o","n"," ","d","e","t","e","c","t","e","d",":"," ","D","i","f","f","e","r","e","n","t"," ","v","a","l","u","e","s"," ","f","o","r"," ","t","h","e"," ","s","a","m","e"," ","c","l","a","i","m">>
S_msg_date == <<"C","o","n","t","r","a","d","i","c","t","i","o","n",":"," ","D","i","f","f","e","r","e","n","t"," ","d","a","t","e","s"," ","f","o","r"," ","t","h","e"," ","s","a","m","e"," ","e","v","e","n","t">>
S_msg_entity == <<"C","o","n","t","r","a","d","i","c","t","i","o","n",":"," ","D","i","f","f","e","r","e","n","t"," ","i","n","f","o","r","m","a","t","i","o","n"," ","a","b","o","u","t"," ">>

\* _extract_number: the value as m * 10^(3k) / 10^f, or a record with
\* ok = FALSE for None.  k is the multiplier (billion 3, million 2, thousand 1).
_extract_number(text) ==
    LET text_clean == Strip(text, {","})
        low == Lower(text)
        k   == IF Contains(low, S_billion) THEN 3
               ELSE IF Contains(low, S_million) THEN 2
               ELSE IF Contains(low, S_thousand) THEN 1
               ELSE 0
        run == FirstRun(text_clean, DigitChars \cup {"."})
        v   == ParseFloat(run)
    IN  IF run # <<>> /\ v.ok THEN [v EXCEPT !.k = k] ELSE [ok |-> FALSE]

\* _extract_year: int of the first four consecutive digits, or -1 for None
_extract_year(text) ==
    LET hits == {i \in 1..(Len(text) - 3) : \A j \in i..(i + 3) : text[j] \in DigitChars}
    IN  IF hits = {} THEN -1
        ELSE LET i == CHOOSE k \in hits : \A m \in hits : k <= m
             IN  DigitsToInt(SubSeq(text, i, i + 3))

\* _same_subject
_same_subject(sentence1, sentence2) ==
    LET words1 == Take(Split(Lower(sentence1)), 5)
        words2 == Take(Split(Lower(sentence2)), 5)
        common == Range(words1) \cap Range(words2)
    IN  Cardinality(common) >= 2

\* the ends e of a match of [A-Z][a-z]+(?:\s+[A-Z][a-z]+)* that starts at i
\* and is followed by whitespace (what \s+is requires of it)
RECURSIVE CapPhraseEnds(_, _)
CapPhraseEnds(s, i) ==
    IF i > Len(s) \/ s[i] \notin UpperChars THEN {}
    ELSE LET e == RunEnd(s, i + 1, LowerChars)
         IN  IF e < i + 1 \/ e >= Len(s) \/ s[e + 1] \notin Whitespace THEN {}
             ELSE {e} \cup CapPhraseEnds(s, RunEnd(s, e + 1, Whitespace) + 1)

\* where group 2 of \s+is\s+(.+) starts when group 1 ends at e; 0 if no match.
\* The second \s+ is greedy and gives back whitespace until (.+) has a
\* character that is not a newline.
IsClaimStart(s, e) ==
    LET w == RunEnd(s, e + 1, Whitespace)
    IN  IF w + 3 <= Len(s) /\ s[w + 1] = "i" /\ s[w + 2] = "s" /\ s[w + 3] \in Whitespace
        THEN LET w2 == RunEnd(s, w + 3, Whitespace)
                 gs == {g \in (w + 4)..(w2 + 1) : g <= Len(s) /\ s[g] # "nl"}
             IN  IF gs = {} THEN 0 ELSE CHOOSE g \in gs : \A h \in gs : h <= g
        ELSE 0

\* _extract_is_statement: groups 1 and 2 of the leftmost match, or None
_extract_is_statement(sentence) ==
    LET starts == {i \in 1..Len(sentence) :
                      \E e \in CapPhraseEnds(sentence, i) : IsClaimStart(sentence, e) > 0}
    IN  IF starts = {} THEN None
        ELSE LET i == CHOOSE k \in starts : \A m \in starts : k <= m
                 e == CHOOSE k \in CapPhraseEnds(sentence, i) : IsClaimStart(sentence, k) > 0
                 g == IsClaimStart(sentence, e)
             IN  [type |-> "match",
                  subject |-> SubSeq(sentence, i, e),
                  claim |-> SubSeq(sentence, g, RunEndNot(sentence, g, {"nl"}))]

\* _similar_text
_similar_text(text1, text2) ==
    LET words1 == Range(Split(Lower(text1)))
        words2 == Range(Split(Lower(text2)))
        c1 == Cardinality(words1)
        c2 == Cardinality(words2)
        least == IF c1 < c2 THEN c1 ELSE c2
    IN  IF words1 = {} \/ words2 = {} THEN FALSE
        ELSE 2 * Cardinality(words1 \cap words2) > least

Abs(x) == IF x < 0 THEN -x ELSE x
Max(x, y) == IF x > y THEN x ELSE y
Min(x, y) == IF x < y THEN x ELSE y

\* the two parsed values on one integer scale: each is m * 10^(3k - f), and
\* both are multiplied by the same power of ten, which leaves
\* abs(num1 - num2) / max(num1, num2) unchanged
Scaled(n, other) ==
    n.m * Pow10((3 * n.k - n.f) - Min(3 * n.k - n.f, 3 * other.k - other.f))

\* f"{x:.1f}" for x = num / den >= 0: rounded to one decimal, ties to even
FormatTenths(num, den) ==
    LET q == (10 * num) \div den
        r == (10 * num) % den
        t == IF 2 * r > den \/ (2 * r = den /\ q % 2 = 1) THEN q + 1 ELSE q
    IN  IntToStr(t \div 10) \o <<".">> \o IntToStr(t % 10)

\* diff_percent is computed in doubles.  For values written with at most two
\* digits and one fraction digit, with or without a multiplier, the double
\* is on the same side of 20 and of 50 as the exact quotient whenever the
\* exact quotient is not 20 or 50; when it is exactly 50 the double is 50.0;
\* when it is exactly 20 the double is 20.0, except for the pairs
\* <<m1, f1, k1, m2, f2, k2>> below (num1 = m1 / 10^f1 * 1000^k1), where
\* float(num1) - float(num2) is not exact and the double is
\* 20.000000000000004.
AboveTwenty ==
    {<<3, 0, 0, 24, 1, 0>>, <<6, 0, 0, 48, 1, 0>>, <<7, 0, 0, 56, 1, 0>>, <<12, 0, 0, 96, 1, 0>>,
     <<12, 1, 0, 15, 1, 0>>, <<15, 1, 0, 12, 1, 0>>, <<24, 1, 0, 3, 0, 0>>, <<24, 1, 0, 30, 1, 0>>,
     <<28, 1, 0, 35, 1, 0>>, <<30, 1, 0, 24, 1, 0>>, <<35, 1, 0, 28, 1, 0>>, <<48, 1, 0, 6, 0, 0>>,
     <<48, 1, 0, 60, 1, 0>>, <<56, 1, 0, 7, 0, 0>>, <<56, 1, 0, 70, 1, 0>>, <<60, 1, 0, 48, 1, 0>>,
     <<70, 1, 0, 56, 1, 0>>, <<76, 1, 0, 95, 1, 0>>, <<95, 1, 0, 76, 1, 0>>, <<96, 1, 0, 12, 0, 0>>}

\* diff_percent > t for the thresholds t = 20 and t = 50
DiffPercentAbove(num1, num2, t) ==
    LET a == Scaled(num1, num2)
        b == Scaled(num2, num1)
        d == Abs(a - b)
        hi == Max(a, b)
    IN  IF 100 * d = t * hi
        THEN t = 20 /\ <<num1.m, num1.f, num1.k, num2.m, num2.f, num2.k>> \in AboveTwenty
        ELSE 100 * d > t * hi

\* _check_numeric_contradiction.  diff_percent is abs(a - b) / max(a, b) * 100;
\* the division raises ZeroDivisionError when both values are 0.
_check_numeric_contradiction(fact1, fact2) ==
    LET num1 == _extract_number(fact1.entity)
        num2 == _extract_number(fact2.entity)
    IN  IF ~num1.ok \/ ~num2.ok THEN None
        ELSE IF ~_same_subject(fact1.sentence, fact2.sentence) THEN None
        ELSE LET a == Scaled(num1, num2)
                 b == Scaled(num2, num1)
                 d == Abs(a - b)
                 hi == Max(a, b)
             IN  IF hi = 0 THEN Raise("ZeroDivisionError")
                 ELSE IF DiffPercentAbove(num1, num2, 20)
                 THEN [type |-> "numeric_contradiction",
                       severity |-> IF DiffPercentAbove(num1, num2, 50)
                                    THEN "high" ELSE "medium",
                       previous_claim |-> fact2.sentence,
                       current_claim |-> fact1.sentence,
                       previous_value |-> fact2.entity,
                       current_value |-> fact1.entity,
                       difference |-> FormatTenths(100 * d, hi) \o S_pct_difference,
                       message |-> S_msg_numeric]
                 ELSE None

\* _check_date_contradiction without the test year1 == year2
_check_date_contradiction_equal_years(fact1, fact2) ==
    LET year1 == _extract_year(fact1.entity)
        year2 == _extract_year(fact2.entity)
    IN  IF year1 = -1 \/ year2 = -1 THEN None
        ELSE IF ~_same_subject(fact1.sentence, fact2.sentence) THEN None
        ELSE [type |-> "date_contradiction",
              severity |-> "high",
              previous_claim |-> fact2.sentence,
              current_claim |-> fact1.sentence,
              previous_value |-> fact2.entity,
              current_value |-> fact1.entity,
              difference |-> IntToStr(Abs(year1 - year2)) \o S_years_apart,
              message |-> S_msg_date]

\* _check_date_contradiction
_check_date_contradiction(fact1, fact2) ==
    LET year1 == _extract_year(fact1.entity)
        year2 == _extract_year(fact2.entity)
    IN  IF year1 = -1 \/ year2 = -1 \/ year1 = year2 THEN None
        ELSE IF ~_same_subject(fact1.sentence, fact2.sentence) THEN None
        ELSE [type |-> "date_contradiction",
              severity |-> "high",
              previous_claim |-> fact2.sentence,
              current_claim |-> fact1.sentence,
              previous_value |-> fact2.entity,
              current_value |-> fact1.entity,
              difference |-> IntToStr(Abs(year1 - year2)) \o S_years_apart,
              message |-> S_msg_date]

\* _check_entity_contradiction
_check_entity_contradiction(fact1, fact2) ==
    LET pattern1 == _extract_is_statement(fact1.sentence)
        pattern2 == _extract_is_statement(fact2.sentence)
    IN  IF pattern1 # None /\ pattern2 # None
           /\ _similar_text(pattern1.subject, pattern2.subject)
           /\ ~_similar_text(pattern1.claim, pattern2.claim)
        THEN [type |-> "entity_contradiction",
              severity |-> "high",
              previous_claim |-> fact2.sentence,
              current_claim |-> fact1.sentence,
              message |-> S_msg_entity \o pattern1.subject]
        ELSE None

\* _check_fact_pair with 'POPULATION' missing from the numeric types
_check_fact_pair_no_population(fact1, fact2) ==
    IF fact1.entity_type # fact2.entity_type THEN None
    ELSE IF fact1.entity_type \in {"CARDINAL", "QUANTITY", "MONEY", "MEASUREMENT"}
         THEN _check_numeric_contradiction(fact1, fact2)
    ELSE IF fact1.entity_type = "DATE"
         THEN _check_date_contradiction(fact1, fact2)
    ELSE IF fact1.entity_type \in {"GPE", "LOC", "PERSON", "ORG"}
         THEN _check_entity_contradiction(fact1, fact2)
    ELSE None

\* _check_fact_pair
_check_fact_pair(fact1, fact2) ==
    IF fact1.entity_type # fact2.entity_type THEN None
    ELSE IF fact1.entity_type \in {"CARDINAL", "QUANTITY", "MONEY", "MEASUREMENT", "POPULATION"}
         THEN _check_numeric_contradiction(fact1, fact2)
    ELSE IF fact1.entity_type = "DATE"
         THEN _check_date_contradiction(fact1, fact2)
    ELSE IF fact1.entity_type \in {"GPE", "LOC", "PERSON", "ORG"}
         THEN _check_entity_contradiction(fact1, fact2)
    ELSE None

\* the loops of detect_contradictions with a contradiction left out when one
\* with the same two claims is already in the list
RECURSIVE DetectLoop_dedup(_, _, _, _, _)
DetectLoop_dedup(new_facts, previous_facts, i, j, acc) ==
    IF i > Len(new_facts) THEN acc
    ELSE IF j > Len(previous_facts) THEN DetectLoop_dedup(new_facts, previous_facts, i + 1, 1, acc)
    ELSE LET contradiction == _check_fact_pair(new_facts[i], previous_facts[j])
             seen == \E k \in 1..Len(acc) :
                         /\ acc[k].previous_claim = contradiction.previous_claim
                         /\ acc[k].current_claim = contradiction.current_claim
         IN  IF contradiction.type = "raise" THEN contradiction
             ELSE DetectLoop_dedup(new_facts, previous_facts, i, j + 1,
                                   IF contradiction # None /\ ~seen
                                   THEN Append(acc, contradiction) ELSE acc)

\* the loops of detect_contradictions over new_facts[i..] x previous_facts[j..]:
\* the contradictions appended in order, or the exception of the first pair
\* that raises
RECURSIVE DetectLoop(_, _, _, _, _)
DetectLoop(new_facts, previous_facts, i, j, acc) ==
    IF i > Len(new_facts) THEN acc
    ELSE IF j > Len(previous_facts) THEN DetectLoop(new_facts, previous_facts, i + 1, 1, acc)
    ELSE LET contradiction == _check_fact_pair(new_facts[i], previous_facts[j])
         IN  IF contradiction.type = "raise" THEN contradiction
             ELSE DetectLoop(new_facts, previous_facts, i, j + 1,
                             IF contradiction # None THEN Append(acc, contradiction) ELSE acc)

\* detect_contradictions run after add_facts: the new claims are compared
\* with the history and with each other
detect_contradictions_after_append(facts, session_id, new_facts) ==
    DetectLoop(new_facts,
               (IF session_id \in DOMAIN facts THEN facts[session_id] ELSE <<>>) \o new_facts,
               1, 1, <<>>)

\* detect_contradictions(session_id, new_facts) on the store facts
detect_contradictions(facts, session_id, new_facts) ==
    IF session_id \notin DOMAIN facts THEN <<>>
    ELSE DetectLoop(new_facts, facts[session_id], 1, 1, <<>>)

\* detect_contradictions reading the history with setdefault: an unknown
\* session gets an empty entry
detect_contradictions_setdefault(store, session_id, new_facts) ==
    IF session_id \in DOMAIN store THEN store ELSE store @@ (session_id :> <<>>)

\* the store after detect_contradictions(session_id, new_facts): the method
\* tests membership and reads self.session_facts[session_id], and assigns
\* nothing
detect_contradictions_store(store, session_id, new_facts) == store

\* add_facts with an assignment in place of extend
add_facts_replaces(store, session_id, facts) ==
    LET created == IF session_id \notin DOMAIN store
                   THEN store @@ (session_id :> <<>>)
                   ELSE store
    IN  [created EXCEPT ![session_id] = facts]

\* add_facts(session_id, facts): the store afterwards
add_facts(store, session_id, facts) ==
    LET created == IF session_id \notin DOMAIN store
                   THEN store @@ (session_id :> <<>>)
                   ELSE store
    IN  [created EXCEPT ![session_id] = @ \o facts]

\* clear_session without the del
clear_session_keeps(store, session_id) == store

\* clear_session as self.session_facts = {}
clear_session_all(store, session_id) == [k \in {} |-> <<>>]

\* clear_session(session_id) / del d[session_id] guarded by membership
clear_session(store, session_id) ==
    IF session_id \in DOMAIN store
    THEN [s \in DOMAIN store \ {session_id} |-> store[s]]
    ELSE store

----------------------------------------------------------------------------
(* WikipediaVerifier (backend/refdatabase.py)                              *)

S_note_no_query == <<"C","o","u","l","d"," ","n","o","t"," ","c","r","e","a","t","e"," ","v","a","l","i","d"," ","s","e","a","r","c","h"," ","q","u","e","r","y">>
S_note_no_page == <<"N","o"," ","W","i","k","i","p","e","d","i","a"," ","p","a","g","e"," ","f","o","u","n","d"," ","f","o","r"," ","'">>
S_quote == <<"'">>
S_note_error == <<"E","r","r","o","r"," ","a","c","c","e","s","s","i","n","g"," ","W","i","k","i","p","e","d","i","a",":"," ">>
S_note_entity_found == <<"E","n","t","i","t","y"," ","f","o","u","n","d"," ","i","n"," ","W","i","k","i","p","e","d","i","a">>
S_note_entity_not_found == <<"E","n","t","i","t","y"," ","n","o","t"," ","f","o","u","n","d"," ","i","n"," ","W","i","k","i","p","e","d","i","a"," ","p","a","g","e">>
S_note_value == <<"V","a","l","u","e"," ","'">>
S_note_value_found == <<"'"," ","f","o","u","n","d"," ","i","n"," ","W","i","k","i","p","e","d","i","a">>
S_note_similar == <<"S","i","m","i","l","a","r"," ","v","a","l","u","e"," ","f","o","u","n","d"," ","i","n"," ","W","i","k","i","p","e","d","i","a">>
S_note_value_not_found == <<"'"," ","n","o","t"," ","f","o","u","n","d"," ","i","n"," ","W","i","k","i","p","e","d","i","a">>
S_note_could_not_verify == <<"C","o","u","l","d"," ","n","o","t"," ","v","e","r","i","f","y">>

\* an Optional[str] that holds a string (None is the other value)
Str(v) == [type |-> "str", v |-> v]

NameTypes == {"GPE", "LOC", "PERSON", "ORG"}
ValueTypes == {"DATE", "CARDINAL", "QUANTITY", "MONEY", "MEASUREMENT", "POPULATION", "WEIGHT", "TEMPERATURE"}

\* str.strip()
StripWs(s) ==
    IF \A i \in 1..Len(s) : s[i] \in Whitespace THEN <<>>
    ELSE LET a == CHOOSE i \in 1..Len(s) :
                      s[i] \notin Whitespace /\ \A j \in 1..(i - 1) : s[j] \in Whitespace
             b == CHOOSE i \in 1..Len(s) :
                      s[i] \notin Whitespace /\ \A j \in (i + 1)..Len(s) : s[j] \in Whitespace
         IN  SubSeq(s, a, b)

\* the greedy match of (?:\s+[A-Z][a-z]+)* after a capitalized word ending at e
RECURSIVE CapPhraseExtend(_, _)
CapPhraseExtend(s, e) ==
    LET w == RunEnd(s, e + 1, Whitespace)
    IN  IF w > e /\ w + 2 <= Len(s) /\ s[w + 1] \in UpperChars /\ s[w + 2] \in LowerChars
        THEN CapPhraseExtend(s, RunEnd(s, w + 2, LowerChars))
        ELSE e

\* end of the match of [A-Z][a-z]+(?:\s+[A-Z][a-z]+)* at position i, 0 if none
CapPhraseEnd(s, i) ==
    IF i >= 1 /\ i + 1 <= Len(s) /\ s[i] \in UpperChars /\ s[i + 1] \in LowerChars
    THEN CapPhraseExtend(s, RunEnd(s, i + 1, LowerChars))
    ELSE 0

\* start of group 1 of [Tt]he\s+([A-Z][a-z]+...) when the match starts at i, 0 if none
ThePhraseStart(s, i) ==
    IF i + 3 <= Len(s) /\ s[i] \in {"T", "t"} /\ s[i + 1] = "h" /\ s[i + 2] = "e"
       /\ s[i + 3] \in Whitespace
    THEN LET w == RunEnd(s, i + 3, Whitespace)
         IN  IF CapPhraseEnd(s, w + 1) > 0 THEN w + 1 ELSE 0
    ELSE 0

\* _extract_subject_from_sentence; <<>> stands for None (both fail `if subject`)
_extract_subject_from_sentence(sentence) ==
    LET the == {i \in 1..Len(sentence) : ThePhraseStart(sentence, i) > 0}
        cap == {i \in 1..Len(sentence) : CapPhraseEnd(sentence, i) > 0}
    IN  IF CapPhraseEnd(sentence, 1) > 0
        THEN SubSeq(sentence, 1, CapPhraseEnd(sentence, 1))
        ELSE IF the # {}
        THEN LET i == CHOOSE k \in the : \A m \in the : k <= m
                 g == ThePhraseStart(sentence, i)
             IN  SubSeq(sentence, g, CapPhraseEnd(sentence, g))
        ELSE IF cap # {}
        THEN LET i == CHOOSE k \in cap : \A m \in cap : k <= m
             IN  SubSeq(sentence, i, CapPhraseEnd(sentence, i))
        ELSE <<>>

\* _create_search_query
_create_search_query(entity, entity_type, sentence) ==
    IF entity_type \in NameTypes THEN entity
    ELSE IF entity_type \in ValueTypes THEN _extract_subject_from_sentence(sentence)
    ELSE entity

\* re.findall(r'([\d.]+)\s*(?:million|...)?', text): the maximal runs of
\* digits and dots from position i on, in order (the optional unit consumes
\* no digit, so it does not change the runs found)
RECURSIVE NumberRuns(_, _)
NumberRuns(text, i) ==
    IF i > Len(text) THEN <<>>
    ELSE IF text[i] \in DigitChars \cup {"."}
    THEN LET e == RunEnd(text, i, DigitChars \cup {"."})
         IN  <<SubSeq(text, i, e)>> \o NumberRuns(text, e + 1)
    ELSE NumberRuns(text, i + 1)

\* abs(text_value - value) / value is computed in doubles.  When the exact
\* quotient is not 0.1 the double is on the same side of 0.1.  When it is
\* exactly 0.1 the double is 0.1 or above, except for the pairs
\* <<mt, ft, mv, fv>> below (text_value = mt / 10^ft, value = mv / 10^fv),
\* where it is 0.09999999999999998 or the like.  The table holds all such
\* pairs with a value below 100 and numbers of at most one fraction digit.
BelowTenth ==
    {<<9, 1, 1, 0>>, <<18, 1, 2, 0>>, <<27, 1, 3, 0>>, <<33, 1, 3, 0>>, <<36, 1, 4, 0>>,
     <<54, 1, 6, 0>>, <<66, 1, 6, 0>>, <<72, 1, 8, 0>>, <<9, 1, 10, 1>>, <<99, 1, 11, 0>>,
     <<121, 1, 11, 0>>, <<108, 1, 12, 0>>, <<132, 1, 12, 0>>, <<144, 1, 16, 0>>, <<153, 1, 17, 0>>,
     <<187, 1, 17, 0>>, <<171, 1, 19, 0>>, <<209, 1, 19, 0>>, <<18, 1, 20, 1>>, <<198, 1, 22, 0>>,
     <<242, 1, 22, 0>>, <<216, 1, 24, 0>>, <<264, 1, 24, 0>>, <<243, 1, 27, 0>>, <<297, 1, 27, 0>>,
     <<261, 1, 29, 0>>, <<319, 1, 29, 0>>, <<27, 1, 30, 1>>, <<33, 1, 30, 1>>, <<288, 1, 32, 0>>,
     <<363, 1, 33, 0>>, <<306, 1, 34, 0>>, <<374, 1, 34, 0>>, <<342, 1, 38, 0>>, <<418, 1, 38, 0>>,
     <<351, 1, 39, 0>>, <<429, 1, 39, 0>>, <<36, 1, 40, 1>>, <<387, 1, 43, 0>>, <<473, 1, 43, 0>>,
     <<396, 1, 44, 0>>, <<484, 1, 44, 0>>, <<432, 1, 48, 0>>, <<528, 1, 48, 0>>, <<441, 1, 49, 0>>,
     <<539, 1, 49, 0>>, <<477, 1, 53, 0>>, <<583, 1, 53, 0>>, <<486, 1, 54, 0>>, <<594, 1, 54, 0>>,
     <<522, 1, 58, 0>>, <<638, 1, 58, 0>>, <<531, 1, 59, 0>>, <<54, 1, 60, 1>>, <<66, 1, 60, 1>>,
     <<671, 1, 61, 0>>, <<567, 1, 63, 0>>, <<693, 1, 63, 0>>, <<576, 1, 64, 0>>, <<726, 1, 66, 0>>,
     <<612, 1, 68, 0>>, <<748, 1, 68, 0>>, <<621, 1, 69, 0>>, <<781, 1, 71, 0>>, <<657, 1, 73, 0>>,
     <<803, 1, 73, 0>>, <<684, 1, 76, 0>>, <<836, 1, 76, 0>>, <<702, 1, 78, 0>>, <<858, 1, 78, 0>>,
     <<72, 1, 80, 1>>, <<729, 1, 81, 0>>, <<891, 1, 81, 0>>, <<747, 1, 83, 0>>, <<913, 1, 83, 0>>,
     <<774, 1, 86, 0>>, <<946, 1, 86, 0>>, <<792, 1, 88, 0>>, <<968, 1, 88, 0>>, <<819, 1, 91, 0>>,
     <<1001, 1, 91, 0>>, <<837, 1, 93, 0>>, <<1023, 1, 93, 0>>, <<864, 1, 96, 0>>, <<1056, 1, 96, 0>>,
     <<882, 1, 98, 0>>, <<1078, 1, 98, 0>>}

\* abs(text_value - value) / value < 0.1 for values m / 10^f; the division
\* raises ZeroDivisionError for value = 0, which the bare except around it
\* turns into `continue`
WithinTolerance(text_value, value) ==
    LET f == Max(text_value.f, value.f)
        t == text_value.m * Pow10(f - text_value.f)
        v == value.m * Pow10(f - value.f)
    IN  /\ v # 0
        /\ IF 10 * Abs(t - v) = v
           THEN <<text_value.m, text_value.f, value.m, value.f>> \in BelowTenth
           ELSE 10 * Abs(t - v) < v

\* _check_similar_numbers
_check_similar_numbers(entity, text) ==
    LET run   == FirstRun(entity, DigitChars \cup {"."})
        value == ParseFloat(run)
        text_numbers == NumberRuns(Lower(text), 1)
    IN  /\ run # <<>>
        /\ value.ok
        /\ \E n \in 1..Len(text_numbers) :
              /\ ParseFloat(text_numbers[n]).ok
              /\ WithinTolerance(ParseFloat(text_numbers[n]), value)

\* _verify_against_content
\* a content check that reports every claim with a page as verified
_verify_against_content_always_verified(fact, page_text, page_summary) ==
    [verified |-> TRUE,
     confidence |-> IF Contains(page_text, Lower(fact.entity)) THEN "high" ELSE "low",
     verification_note |-> S_note_entity_found]

_verify_against_content(fact, page_text, page_summary) ==
    LET entity == Lower(fact.entity)
    IN  IF fact.entity_type \in NameTypes
        THEN IF Contains(page_text, entity) \/ Contains(page_summary, entity)
             THEN [verified |-> TRUE, confidence |-> "high",
                   verification_note |-> S_note_entity_found]
             ELSE [verified |-> FALSE, confidence |-> "low",
                   verification_note |-> S_note_entity_not_found]
        ELSE IF fact.entity_type \in ValueTypes
        THEN IF Contains(Strip(page_text, Whitespace \cup {","}), Strip(entity, Whitespace \cup {","}))
             THEN [verified |-> TRUE, confidence |-> "high",
                   verification_note |-> S_note_value \o entity \o S_note_value_found]
             ELSE IF _check_similar_numbers(entity, page_text)
             THEN [verified |-> TRUE, confidence |-> "medium",
                   verification_note |-> S_note_similar]
             ELSE [verified |-> FALSE, confidence |-> "low",
                   verification_note |-> S_note_value \o entity \o S_note_value_not_found]
        ELSE [verified |-> FALSE, confidence |-> "unknown",
              verification_note |-> S_note_could_not_verify]

\* VerifyBranch with the try block closed before the result dict is built, so
\* that page.fullurl and page.title raise to the caller
VerifyBranch_narrow_try(search_query, page) ==
    IF search_query = <<>> \/ Len(StripWs(search_query)) < 2 THEN "skip"
    ELSE IF page.fail \in {"page", "exists"} THEN "error"
    ELSE IF ~page.exists THEN "missing"
    ELSE IF page.fail \in {"text", "summary"} THEN "error"
    ELSE IF page.fail \in {"fullurl", "title"} THEN "raise"
    ELSE "checked"

\* the branch of verify_fact taken: "skip" (invalid search query), "error"
\* (the lookup raised inside the try), "missing" (page.exists() is false),
\* "checked", or "raise" for an exception that leaves verify_fact.  page is
\* what the reference source does for this lookup: page.fail names the call
\* that raises ("none": no call raises), in the order wiki.page(), exists(),
\* text, summary, fullurl, title.  All six calls lie inside the try block,
\* whose handler catches Exception, so no branch is "raise".
VerifyBranch(search_query, page) ==
    IF search_query = <<>> \/ Len(StripWs(search_query)) < 2 THEN "skip"
    ELSE IF page.fail \in {"page", "exists"} THEN "error"
    ELSE IF ~page.exists THEN "missing"
    ELSE IF page.fail \in {"text", "summary", "fullurl", "title"} THEN "error"
    ELSE "checked"

\* verify_fact: {**fact, ...} is the record of the new keys over the fact's
verify_fact(fact, page) ==
    LET search_query == _create_search_query(fact.entity, fact.entity_type, fact.sentence)
        branch == VerifyBranch(search_query, page)
    IN  CASE branch = "skip" ->
               [verified |-> FALSE, confidence |-> "unknown", wikipedia_url |-> None,
                verification_note |-> S_note_no_query] @@ fact
          [] branch = "missing" ->
               [verified |-> FALSE, confidence |-> "unknown", wikipedia_url |-> None,
                verification_note |-> S_note_no_page \o search_query \o S_quote] @@ fact
          [] branch = "error" ->
               [verified |-> FALSE, confidence |-> "unknown", wikipedia_url |-> None,
                verification_note |-> S_note_error \o page.exc] @@ fact
          [] branch = "checked" ->
               [wikipedia_url |-> Str(page.fullurl), wikipedia_title |-> page.title]
                   @@ _verify_against_content(fact, Lower(page.text), Lower(page.summary))
                   @@ fact
          [] branch = "raise" -> Raise(page.exc)

\* a value a function returns, where the caller must tell it from an
\* exception
Return(v) == [type |-> "return", value |-> v]

\* the loop of verify_facts from the i-th fact on; an exception leaving
\* verify_fact leaves the loop
RECURSIVE VerifyFactsLoop(_, _, _, _)
VerifyFactsLoop(facts, wiki, i, verified_facts) ==
    IF i > Len(facts) THEN Return(verified_facts)
    ELSE LET verified_fact == verify_fact(facts[i], wiki[i])
         IN  IF "type" \in DOMAIN verified_fact
             THEN verified_fact
             ELSE VerifyFactsLoop(facts, wiki, i + 1, Append(verified_facts, verified_fact))

\* verified_facts.insert(0, verified_fact) in place of append
verify_facts_prepend(facts, wiki) ==
    Return([i \in 1..Len(facts) |->
               verify_fact(facts[Len(facts) + 1 - i], wiki[Len(facts) + 1 - i])])

\* verify_facts: wiki gives the behaviour of the reference source for the
\* lookup of each fact, in order
verify_facts(facts, wiki) == VerifyFactsLoop(facts, wiki, 1, <<>>)

----------------------------------------------------------------------------
(* ResponseFormatter (backend/response_formatter.py)                       *)

S_span_class == <<"<","s","p","a","n"," ","c","l","a","s","s","=","dq","f","a","c","t","-">>
S_span_title == <<"dq"," ","t","i","t","l","e","=","dq">>
S_span_url == <<"dq"," ","d","a","t","a","-","u","r","l","=","dq">>
S_span_gt == <<"dq",">">>
S_span_close == <<"<","/","s","p","a","n",">">>
S_red == <<"r","e","d">>
S_green == <<"g","r","e","e","n">>
S_yellow == <<"y","e","l","l","o","w">>
S_orange == <<"o","r","a","n","g","e">>
E_contradicted == <<"emoji_x">>
E_verified == <<"emoji_ok">>
E_uncertain == <<"emoji_warn","vs16">>
E_unverified == <<"emoji_q">>

\* dict.get(key, default)
Get(d, key, default) == IF key \in DOMAIN d THEN d[key] ELSE default

\* _create_fact_spans with the verified/high test taken before the
\* contradicted test
_create_fact_spans_verified_first(verified_facts, contradictions) ==
    LET contradicted_entities ==
            {Lower(contradictions[i].current_value) :
                i \in {j \in 1..Len(contradictions) : "current_value" \in DOMAIN contradictions[j]}}
        span(fact) ==
            LET look ==
                    IF Get(fact, "verified", FALSE) /\ Get(fact, "confidence", "unknown") = "high"
                    THEN [status |-> "verified", color |-> S_green, emoji |-> E_verified]
                    ELSE IF Lower(fact.entity) \in contradicted_entities
                    THEN [status |-> "contradicted", color |-> S_red, emoji |-> E_contradicted]
                    ELSE IF Get(fact, "verified", FALSE) /\ Get(fact, "confidence", "unknown") = "medium"
                    THEN [status |-> "uncertain", color |-> S_yellow, emoji |-> E_uncertain]
                    ELSE [status |-> "unverified", color |-> S_orange, emoji |-> E_unverified]
            IN  [text |-> fact.entity,
                 status |-> look.status,
                 color |-> look.color,
                 emoji |-> look.emoji,
                 confidence |-> Get(fact, "confidence", "unknown"),
                 wikipedia_url |-> Get(fact, "wikipedia_url", None),
                 note |-> Get(fact, "verification_note", <<>>)]
    IN  [i \in 1..Len(verified_facts) |-> span(verified_facts[i])]

\* _create_fact_spans
_create_fact_spans(verified_facts, contradictions) ==
    LET contradicted_entities ==
            {Lower(contradictions[i].current_value) :
                i \in {j \in 1..Len(contradictions) : "current_value" \in DOMAIN contradictions[j]}}
        span(fact) ==
            LET look ==
                    IF Lower(fact.entity) \in contradicted_entities
                    THEN [status |-> "contradicted", color |-> S_red, emoji |-> E_contradicted]
                    ELSE IF Get(fact, "verified", FALSE) /\ Get(fact, "confidence", "unknown") = "high"
                    THEN [status |-> "verified", color |-> S_green, emoji |-> E_verified]
                    ELSE IF Get(fact, "verified", FALSE) /\ Get(fact, "confidence", "unknown") = "medium"
                    THEN [status |-> "uncertain", color |-> S_yellow, emoji |-> E_uncertain]
                    ELSE [status |-> "unverified", color |-> S_orange, emoji |-> E_unverified]
            IN  [text |-> fact.entity,
                 status |-> look.status,
                 color |-> look.color,
                 emoji |-> look.emoji,
                 confidence |-> Get(fact, "confidence", "unknown"),
                 wikipedia_url |-> Get(fact, "wikipedia_url", None),
                 note |-> Get(fact, "verification_note", <<>>)]
    IN  [i \in 1..Len(verified_facts) |-> span(verified_facts[i])]

\* sorted(fact_spans, key=lambda x: len(x['text']), reverse=True): the sort is
\* stable, so spans of equal length keep their order
RECURSIVE SortedByLength(_, _)
SortedByLength(fact_spans, left) ==
    IF left = {} THEN <<>>
    ELSE LET i == CHOOSE k \in left :
                      \A m \in left :
                          \/ Len(fact_spans[k].text) > Len(fact_spans[m].text)
                          \/ Len(fact_spans[k].text) = Len(fact_spans[m].text) /\ k <= m
         IN  <<fact_spans[i]>> \o SortedByLength(fact_spans, left \ {i})

\* \b at position p of text (between text[p - 1] and text[p])
IsWordAt(text, p) == p >= 1 /\ p <= Len(text) /\ text[p] \in WordChars
Boundary(text, p) == IsWordAt(text, p - 1) # IsWordAt(text, p)

\* re.search(r'\b' + re.escape(entity) + r'\b', text): start of the leftmost
\* match, 0 if there is none
FirstMatch(text, entity) ==
    LET hits == {i \in 1..(Len(text) + 1 - Len(entity)) :
                    /\ SubSeq(text, i, i + Len(entity) - 1) = entity
                    /\ Boundary(text, i)
                    /\ Boundary(text, i + Len(entity))}
    IN  IF hits = {} THEN 0 ELSE CHOOSE i \in hits : \A j \in hits : i <= j

\* the html_span of _create_html_format; `if url` fails for None and for ''
HtmlSpan(span) ==
    IF span.wikipedia_url # None /\ span.wikipedia_url.v # <<>>
    THEN S_span_class \o span.color \o S_span_title \o span.note \o S_span_url
             \o span.wikipedia_url.v \o S_span_gt \o span.emoji \o <<" ">> \o span.text
             \o S_span_close
    ELSE S_span_class \o span.color \o S_span_title \o span.note \o S_span_gt
             \o span.emoji \o <<" ">> \o span.text \o S_span_close

\* the replacement of _create_markdown_format
MarkdownMark(span) == span.emoji \o <<" ">> \o span.text

Replacement(span, mode) == IF mode = "html" THEN HtmlSpan(span) ELSE MarkdownMark(span)

\* The loop `for span in sorted_spans: formatted = re.sub(pattern, repl,
\* formatted, count=1)` from the k-th span on.  formatted is the text so far
\* and from[i] tells where its i-th character comes from: 0 for the original
\* text, j for the replacement of the j-th span.  log[j] records, for the
\* j-th span, whether its pattern matched, and the origins of the characters
\* the match replaced.  from and log are history values: the loop reads
\* formatted only.
RECURSIVE FormatLoop(_, _, _, _, _, _)
FormatLoop(formatted, from, sorted_spans, k, mode, log) ==
    IF k > Len(sorted_spans) THEN [formatted |-> formatted, from |-> from, log |-> log]
    ELSE LET entity == sorted_spans[k].text
             repl == Replacement(sorted_spans[k], mode)
             i == FirstMatch(formatted, entity)
             j == i + Len(entity)
         IN  IF i = 0
             THEN FormatLoop(formatted, from, sorted_spans, k + 1, mode,
                             Append(log, [text |-> entity, matched |-> FALSE, over |-> {}]))
             ELSE FormatLoop(
                      SubSeq(formatted, 1, i - 1) \o repl \o SubSeq(formatted, j, Len(formatted)),
                      SubSeq(from, 1, i - 1) \o [n \in 1..Len(repl) |-> k]
                          \o SubSeq(from, j, Len(from)),
                      sorted_spans, k + 1, mode,
                      Append(log, [text |-> entity, matched |-> TRUE,
                                   over |-> {from[n] : n \in i..(j - 1)}]))

FormatRun(text, fact_spans, mode) ==
    FormatLoop(text, [n \in 1..Len(text) |-> 0],
               SortedByLength(fact_spans, 1..Len(fact_spans)), 1, mode, <<>>)

\* _create_html_format
_create_html_format(text, fact_spans) == FormatRun(text, fact_spans, "html").formatted

\* _create_markdown_format
_create_markdown_format(text, fact_spans) == FormatRun(text, fact_spans, "markdown").formatted

\* _create_fact_summary
_create_fact_summary(verified_facts, contradictions) ==
    [i \in 1..Len(verified_facts) |->
        [entity |-> verified_facts[i].entity,
         type |-> verified_facts[i].entity_type,
         verified |-> Get(verified_facts[i], "verified", FALSE),
         confidence |-> Get(verified_facts[i], "confidence", "unknown"),
         wikipedia_url |-> Get(verified_facts[i], "wikipedia_url", None),
         note |-> Get(verified_facts[i], "verification_note", <<>>)]]

\* has_issues with the test of the claims left out
has_issues_contradictions_only(verified_facts, contradictions) ==
    Len(contradictions) > 0

\* the "has_issues" entry of format_response:
\* len(contradictions) > 0 or any(not f.get('verified') for f in verified_facts)
has_issues(verified_facts, contradictions) ==
    \/ Len(contradictions) > 0
    \/ \E i \in 1..Len(verified_facts) : ~Get(verified_facts[i], "verified", FALSE)

\* format_response.  fact_spans, html_log and markdown_log are not part of
\* the returned dict: they are the spans the renderings were made from and
\* the logs of the two replacement loops (history values).
format_response(original_text, verified_facts, contradictions) ==
    LET fact_spans == _create_fact_spans(verified_facts, contradictions)
    IN  [original |-> original_text,
         html |-> _create_html_format(original_text, fact_spans),
         markdown |-> _create_markdown_format(original_text, fact_spans),
         fact_summary |-> _create_fact_summary(verified_facts, contradictions),
         has_issues |-> has_issues(verified_facts, contradictions),
         fact_spans |-> fact_spans,
         html_log |-> FormatRun(original_text, fact_spans, "html").log,
         markdown_log |-> FormatRun(original_text, fact_spans, "markdown").log]

----------------------------------------------------------------------------
(* ConfidenceScorer (backend/confidence_scorer.py)                         *)

S_sum_high_1 == <<"H","i","g","h","l","y"," ","v","e","r","i","f","i","e","d",":"," ">>
S_sum_high_2 == <<" ","f","a","c","t","s"," ","c","o","n","f","i","r","m","e","d"," ","b","y"," ","W","i","k","i","p","e","d","i","a">>
S_sum_medium_1 == <<"P","a","r","t","i","a","l","l","y"," ","v","e","r","i","f","i","e","d",":"," ">>
S_sum_medium_2 == <<" ","f","a","c","t","s"," ","c","o","n","f","i","r","m","e","d",","," ","s","o","m","e"," ","u","n","c","e","r","t","a","i","n">>
S_sum_low_1 == <<"L","o","w"," ","c","o","n","f","i","d","e","n","c","e",":"," ">>
S_sum_low_2 == <<" ","f","a","c","t","s"," ","c","o","u","l","d"," ","n","o","t"," ","b","e"," ","v","e","r","i","f","i","e","d">>
S_sum_uncertain == <<"U","n","c","e","r","t","a","i","n",":"," ","U","n","a","b","l","e"," ","t","o"," ","v","e","r","i","f","y"," ","m","o","s","t"," ","c","l","a","i","m","s">>
S_sum_none == <<"N","o"," ","v","e","r","i","f","i","a","b","l","e"," ","f","a","c","t","s"," ","f","o","u","n","d">>
S_slash == <<"/">>
\* the emoji literals, character by character as the source file holds them
E_score_unknown == <<"U+00E2","U+201C">>
E_score_high == <<"U+00F0","U+0178","U+0178","U+00A2">>
E_score_medium == <<"U+00F0","U+0178","U+0178","U+00A1">>
E_score_low == <<"U+00F0","U+0178","U+201D","U+00B4">>

\* f.get(key) == v
HasValue(f, key, v) == key \in DOMAIN f /\ f[key] = v

\* sum(1 for f in verified_facts if f.get(key) == v)
Count(verified_facts, key, v) ==
    Cardinality({i \in 1..Len(verified_facts) : HasValue(verified_facts[i], key, v)})

\* _calculate_stats
_calculate_stats(verified_facts) ==
    [total_facts |-> Len(verified_facts),
     verified |-> Count(verified_facts, "verified", TRUE),
     unverified |-> Cardinality({i \in 1..Len(verified_facts) :
                                    /\ HasValue(verified_facts[i], "verified", FALSE)
                                    /\ ~HasValue(verified_facts[i], "confidence", "unknown")}),
     unknown |-> Count(verified_facts, "confidence", "unknown"),
     high_confidence |-> Count(verified_facts, "confidence", "high"),
     medium_confidence |-> Count(verified_facts, "confidence", "medium"),
     low_confidence |-> Count(verified_facts, "confidence", "low")]

\* The floats of the scorer.  total_points is a sum of the doubles 1.0, 0.6,
\* 0.2 and 0.0, so its exact value is k / 5 for an integer k, up to the
\* rounding of the additions: the float is the record [k, d] that stands for
\* the double d units in the last place away from the double nearest to
\* k / 5.  FloatDeviations holds <<k, d, w, d2>> when adding the double of
\* w / 5 to [k, d] gives [k + w, d2], for every sum of up to six weights in
\* which d or d2 is not 0 (IEEE 754 binary64, round to nearest even: 0.6 is
\* stored a little below 3/5 and 0.2 a little above 1/5); any other addition
\* of that range gives the nearest double, d2 = 0.
FloatDeviations ==
    {
     <<2, 0, 1, 1>>, <<3, 1, 0, 1>>, <<3, 1, 1, 0>>, <<3, 1, 3, 1>>,
     <<3, 1, 5, 0>>, <<6, 0, 3, -1>>, <<6, 1, 0, 1>>, <<6, 1, 1, 1>>,
     <<6, 1, 3, 1>>, <<6, 1, 5, 0>>, <<7, 0, 1, -1>>, <<7, 1, 0, 1>>,
     <<7, 1, 1, 0>>, <<7, 1, 3, 0>>, <<7, 1, 5, 1>>, <<8, -1, 0, -1>>,
     <<8, -1, 1, -1>>, <<8, -1, 3, -1>>, <<8, -1, 5, -1>>, <<9, -1, 0, -1>>,
     <<9, -1, 1, -1>>, <<9, -1, 3, 0>>, <<9, -1, 5, 0>>, <<9, 1, 0, 1>>,
     <<9, 1, 1, 1>>, <<9, 1, 3, 1>>, <<9, 1, 5, 1>>, <<10, -1, 0, -1>>,
     <<10, -1, 1, -1>>, <<10, -1, 3, -1>>, <<10, -1, 5, 0>>,
     <<11, -1, 0, -1>>, <<11, -1, 1, 0>>, <<11, -1, 3, 0>>,
     <<11, -1, 5, -1>>, <<11, 0, 1, 1>>, <<11, 0, 3, 1>>, <<12, 1, 0, 1>>,
     <<12, 1, 1, 1>>, <<12, 1, 3, 1>>, <<12, 1, 5, 1>>, <<13, -1, 0, -1>>,
     <<13, -1, 1, 0>>, <<13, -1, 3, -1>>, <<13, -1, 5, -1>>, <<13, 0, 1, 1>>,
     <<13, 1, 0, 1>>, <<13, 1, 1, 2>>, <<13, 1, 3, 1>>, <<13, 1, 5, 1>>,
     <<14, 1, 0, 1>>, <<14, 1, 1, 1>>, <<14, 1, 3, 1>>, <<14, 1, 5, 1>>,
     <<15, 1, 0, 1>>, <<15, 1, 1, 1>>, <<15, 1, 3, 1>>, <<15, 1, 5, 0>>,
     <<16, 0, 1, 1>>, <<16, 0, 3, 1>>, <<17, 1, 0, 1>>, <<17, 1, 1, 1>>,
     <<17, 1, 3, 0>>, <<17, 1, 5, 0>>, <<18, 0, 1, 1>>, <<19, 0, 3, -1>>,
     <<19, 1, 0, 1>>, <<19, 1, 1, 0>>, <<19, 1, 3, 0>>, <<19, 1, 5, 1>>,
     <<23, 0, 3, -1>>
    }

Deviation(k, d, w) ==
    IF \E t \in FloatDeviations : t[1] = k /\ t[2] = d /\ t[3] = w
    THEN (CHOOSE t \in FloatDeviations : t[1] = k /\ t[2] = d /\ t[3] = w)[4]
    ELSE 0

\* total_points += the double of w / 5
FloatAdd(x, w) == [k |-> x.k + w, d |-> Deviation(x.k, x.d, w)]

\* the points of a confidence tier, in fifths: 1.0, 0.6, 0.2, and 0.0 for
\* anything else
Points(confidence) ==
    CASE confidence = "high" -> 5
      [] confidence = "medium" -> 3
      [] confidence = "low" -> 1
      [] OTHER -> 0

\* the loop of _calculate_confidence_score from the i-th fact on
RECURSIVE SumPoints(_, _, _)
SumPoints(verified_facts, i, total_points) ==
    IF i > Len(verified_facts) THEN total_points
    ELSE SumPoints(verified_facts, i + 1,
                   FloatAdd(total_points, Points(Get(verified_facts[i], "confidence", "unknown"))))

\* _calculate_confidence_score: the float total_points / total_facts, kept as
\* the float total_points and the divisor n
_calculate_confidence_score(stats, verified_facts) ==
    IF stats.total_facts = 0 THEN [k |-> 0, d |-> 0, n |-> 1]
    ELSE LET total_points == SumPoints(verified_facts, 1, [k |-> 0, d |-> 0])
         IN  [k |-> total_points.k, d |-> total_points.d, n |-> stats.total_facts]

\* self.HIGH_CONFIDENCE_THRESHOLD = 0.8 and self.MEDIUM_CONFIDENCE_THRESHOLD
\* = 0.5, as fractions
HIGH_CONFIDENCE_THRESHOLD == [num |-> 4, den |-> 5]
MEDIUM_CONFIDENCE_THRESHOLD == [num |-> 1, den |-> 2]

\* the quotients [k, d] / n, of up to six weights, whose exact value k / 5n
\* equals a threshold while the double computed lies below the threshold's
\* double
QuotientsBelowThreshold == {<<10, -1, 4>>, <<24, 0, 6>>}

\* score >= threshold on doubles: away from equality of the exact values the
\* rounding errors (a few units in the last place) decide nothing
AtLeast(score, threshold) ==
    IF score.k * threshold.den = threshold.num * 5 * score.n
    THEN <<score.k, score.d, score.n>> \notin QuotientsBelowThreshold
    ELSE score.k * threshold.den > threshold.num * 5 * score.n

\* _determine_confidence_level with the majority test removed
_determine_confidence_level_by_score(score, stats) ==
    IF AtLeast(score, HIGH_CONFIDENCE_THRESHOLD)
    THEN [level |-> "high", color |-> "green", emoji |-> E_score_high]
    ELSE IF AtLeast(score, MEDIUM_CONFIDENCE_THRESHOLD)
    THEN [level |-> "medium", color |-> "yellow", emoji |-> E_score_medium]
    ELSE [level |-> "low", color |-> "red", emoji |-> E_score_low]

\* _determine_confidence_level; low_confidence > total_facts / 2 is
\* 2 * low_confidence > total_facts
_determine_confidence_level(score, stats) ==
    IF 2 * stats.low_confidence > stats.total_facts
    THEN [level |-> "low", color |-> "red", emoji |-> E_score_low]
    ELSE IF AtLeast(score, HIGH_CONFIDENCE_THRESHOLD)
    THEN [level |-> "high", color |-> "green", emoji |-> E_score_high]
    ELSE IF AtLeast(score, MEDIUM_CONFIDENCE_THRESHOLD)
    THEN [level |-> "medium", color |-> "yellow", emoji |-> E_score_medium]
    ELSE [level |-> "low", color |-> "red", emoji |-> E_score_low]

\* _generate_summary
_generate_summary(stats, confidence_level) ==
    LET total == IntToStr(stats.total_facts)
        verified == IntToStr(stats.verified)
    IN  IF confidence_level = "high"
        THEN S_sum_high_1 \o verified \o S_slash \o total \o S_sum_high_2
        ELSE IF confidence_level = "medium"
        THEN S_sum_medium_1 \o verified \o S_slash \o total \o S_sum_medium_2
        ELSE IF confidence_level = "low"
        THEN IF stats.unverified > 0
             THEN S_sum_low_1 \o IntToStr(stats.unverified) \o S_slash \o total \o S_sum_low_2
             ELSE S_sum_uncertain
        ELSE S_sum_none

\* _categorize_facts
_categorize_facts(verified_facts) ==
    [verified |-> SelectSeq(verified_facts,
                            LAMBDA f : HasValue(f, "verified", TRUE)
                                       /\ HasValue(f, "confidence", "high")),
     uncertain |-> SelectSeq(verified_facts,
                             LAMBDA f : HasValue(f, "confidence", "medium")
                                        \/ HasValue(f, "confidence", "unknown")),
     contradicted |-> SelectSeq(verified_facts,
                                LAMBDA f : HasValue(f, "verified", FALSE)
                                           /\ HasValue(f, "confidence", "low"))]

\* round(confidence_score, 2) replaced by int(confidence_score * 100) / 100
TruncateHundredths(score) == (20 * score.k) \div score.n

\* round(confidence_score, 2), in hundredths: the nearest integer to
\* 100 * k / 5n, a tie going to the even one.  The double lies within a few
\* units in the last place of k / 5n, and a tie needs 8 to divide n.
RoundHundredths(score) ==
    LET q == (20 * score.k) \div score.n
        r == (20 * score.k) % score.n
    IN  IF 2 * r > score.n \/ (2 * r = score.n /\ q % 2 = 1) THEN q + 1 ELSE q

\* score_response; confidence_score is in hundredths
score_response(verified_facts) ==
    IF Len(verified_facts) = 0
    THEN [overall_confidence |-> "unknown",
          confidence_score |-> 0,
          color |-> "gray",
          emoji |-> E_score_unknown,
          summary |-> S_sum_none,
          stats |-> [total_facts |-> 0, verified |-> 0, unverified |-> 0, unknown |-> 0]]
    ELSE LET stats == _calculate_stats(verified_facts)
             confidence_score == _calculate_confidence_score(stats, verified_facts)
             look == _determine_confidence_level(confidence_score, stats)
         IN  [overall_confidence |-> look.level,
              confidence_score |-> RoundHundredths(confidence_score),
              color |-> look.color,
              emoji |-> look.emoji,
              summary |-> _generate_summary(stats, look.level),
              stats |-> stats,
              detailed_facts |-> _categorize_facts(verified_facts)]

----------------------------------------------------------------------------
(* Inputs: session ids and the claims of a few turns                       *)

Sessions == {"s1", "s2"}

\* the most facts kept over all sessions of the detector
MaxFacts == 2

S_Tokyo == <<"T","o","k","y","o">>
S_14_million == <<"1","4"," ","m","i","l","l","i","o","n">>
S_38_million == <<"3","8"," ","m","i","l","l","i","o","n">>
S_2_million == <<"2"," ","m","i","l","l","i","o","n">>
S_1889 == <<"1","8","8","9">>
S_1990 == <<"1","9","9","0">>
S_the_year_1889 == <<"t","h","e"," ","y","e","a","r"," ","1","8","8","9">>
S_last_year == <<"l","a","s","t"," ","y","e","a","r">>
S_Tokyo_has_14 == <<"T","o","k","y","o"," ","h","a","s"," ","1","4"," ","m","i","l","l","i","o","n"," ","p","e","o","p","l","e">>
S_Tokyo_has_38 == <<"T","o","k","y","o"," ","h","a","s"," ","3","8"," ","m","i","l","l","i","o","n"," ","p","e","o","p","l","e">>
S_Paris_has_2 == <<"P","a","r","i","s"," ","h","a","s"," ","2"," ","m","i","l","l","i","o","n"," ","p","e","o","p","l","e">>
S_tower_1889 == <<"T","h","e"," ","t","o","w","e","r"," ","w","a","s"," ","b","u","i","l","t"," ","i","n"," ","1","8","8","9">>
S_tower_1990 == <<"T","h","e"," ","t","o","w","e","r"," ","w","a","s"," ","b","u","i","l","t"," ","i","n"," ","1","9","9","0">>
S_tower_the_year_1889 == <<"T","h","e"," ","t","o","w","e","r"," ","w","a","s"," ","b","u","i","l","t"," ","i","n"," ","t","h","e"," ","y","e","a","r"," ","1","8","8","9">>
S_tower_last_year == <<"T","h","e"," ","t","o","w","e","r"," ","w","a","s"," ","b","u","i","l","t"," ","l","a","s","t"," ","y","e","a","r">>

\* a fact as the extractor and the test scripts build it
Fact(entity, entity_type, sentence) ==
    [entity |-> entity, entity_type |-> entity_type, sentence |-> sentence, claim |-> sentence]

F_Tokyo14 == Fact(S_Tokyo, "GPE", S_Tokyo_has_14)
F_Pop14 == Fact(S_14_million, "POPULATION", S_Tokyo_has_14)
F_Tokyo38 == Fact(S_Tokyo, "GPE", S_Tokyo_has_38)
F_Pop38 == Fact(S_38_million, "POPULATION", S_Tokyo_has_38)
F_Pop2 == Fact(S_2_million, "POPULATION", S_Paris_has_2)
F_1889 == Fact(S_1889, "DATE", S_tower_1889)
F_1990 == Fact(S_1990, "DATE", S_tower_1990)
F_year1889 == Fact(S_the_year_1889, "DATE", S_tower_the_year_1889)
F_lastyear == Fact(S_last_year, "DATE", S_tower_last_year)

\* a claim of a type no rule of _check_fact_pair names
S_5_pm == <<"5"," ","p","m">>
S_At_5_pm == <<"A","t"," ","5"," ","p","m"," ","T","o","k","y","o"," ","s","l","e","e","p","s">>
F_Time == Fact(S_5_pm, "TIME", S_At_5_pm)

\* the fact lists handed to add_facts and detect_contradictions
DateFacts == {F_1889, F_1990, F_year1889, F_lastyear}
FactLists ==
    {<<F_Tokyo14, F_Pop14>>, <<F_Tokyo38, F_Pop38>>, <<F_Pop2>>}
        \cup {<<f>> : f \in DateFacts} \cup {<<F_Time>>}

----------------------------------------------------------------------------
(* The detector driven through its public methods, as                      *)
(* backend/test_contradictions.py and streamlit_app.py drive it            *)

EmptyMap == [s \in {} |-> <<>>]
\* the fact lists for which detect_contradictions finds something in history;
\* the call record of clear_session keeps it for the history it deleted, and
\* that of a detect_contradictions that directly follows (a history value)
Contradicting(history) ==
    {fs \in FactLists : DetectLoop(fs, history, 1, 1, <<>>) # <<>>}

RECURSIVE SumLen(_, _)
SumLen(store, keys) ==
    IF keys = {} THEN 0
    ELSE LET k == CHOOSE x \in keys : TRUE
         IN  Len(store[k]) + SumLen(store, keys \ {k})

TotalFacts(store) == SumLen(store, DOMAIN store)

AddFacts(s, fs) ==
    /\ TotalFacts(session_facts) + Len(fs) <= MaxFacts
    /\ session_facts' = add_facts(session_facts, s, fs)
    /\ call' = [op |-> "add_facts", sid |-> s, facts |-> <<>>, hit |-> {}]
    /\ result' = None
    /\ cleared' = [cleared EXCEPT ![s] = FALSE]
    /\ UNCHANGED <<conversations, req>>

Detect(s, fs) ==
    /\ call' = [op |-> "detect_contradictions", sid |-> s, facts |-> fs,
                hit |-> IF call.op = "clear_session" /\ call.sid = s THEN call.hit ELSE {}]
    /\ result' = detect_contradictions(session_facts, s, fs)
    /\ session_facts' = detect_contradictions_store(session_facts, s, fs)
    /\ UNCHANGED <<conversations, req, cleared>>

ClearSession(s) ==
    /\ session_facts' = clear_session(session_facts, s)
    /\ call' = [op |-> "clear_session", sid |-> s, facts |-> <<>>,
                hit |-> IF s \in DOMAIN session_facts
                        THEN Contradicting(session_facts[s])
                        ELSE {}]
    /\ result' = None
    /\ cleared' = [cleared EXCEPT ![s] = TRUE]
    /\ UNCHANGED <<conversations, req>>

NoRequests == <<>>

InitDetector ==
    /\ conversations = EmptyMap
    /\ session_facts = EmptyMap
    /\ req = NoRequests
    /\ call = [op |-> "init", sid |-> "s1", facts |-> <<>>, hit |-> {}]
    /\ result = None
    /\ cleared = [s \in Sessions |-> FALSE]

NextDetector ==
    \E s \in Sessions :
        \/ \E fs \in FactLists : AddFacts(s, fs)
        \/ \E fs \in FactLists : Detect(s, fs)
        \/ ClearSession(s)

SpecDetector == InitDetector /\ [][NextDetector]_vars

----------------------------------------------------------------------------
(* Properties of the detector, checked under SpecDetector                  *)

Detected == call.op = "detect_contradictions"
History == IF call.sid \in DOMAIN session_facts THEN session_facts[call.sid] ELSE <<>>

\* C3: with the history holding the POPULATION claim '14 million' of 'Tokyo
\* has 14 million people', detect on the POPULATION claim '2 million' of
\* 'Paris has 2 million people' returns no contradiction.
C3_NoFalsePositiveAcrossSubjects ==
    (Detected /\ call.facts = <<F_Pop2>> /\ History = <<F_Tokyo14, F_Pop14>>)
        => result = <<>>

\* C4: once clear_session(id) has run, and until the next add_facts(id, ..),
\* the session has no history and every detect_contradictions(id, claims)
\* returns the empty list, also for claims that contradicted the deleted
\* history.
C4_ClearThenDetectEmpty ==
    \A s \in Sessions :
        cleared[s] =>
            /\ s \notin DOMAIN session_facts
            /\ (Detected /\ call.sid = s) => result = <<>>

\* a detect right after a clear, with claims that contradicted the deleted history
C4_Witness ==
    /\ Detected
    /\ cleared[call.sid]
    /\ call.facts \in call.hit
    /\ result = <<>>

\* C6: after the turn ('Tokyo', '14 million') was added, detect on the turn
\* ('Tokyo', '38 million') returns exactly one contradiction: numeric, high,
\* previous value '14 million', current value '38 million'.
C6_NumericContradictionAcrossTurns ==
    (Detected /\ call.facts = <<F_Tokyo38, F_Pop38>> /\ History = <<F_Tokyo14, F_Pop14>>)
        => /\ Len(result) = 1
           /\ result[1].type = "numeric_contradiction"
           /\ result[1].severity = "high"
           /\ result[1].previous_value = S_14_million
           /\ result[1].current_value = S_38_million

C6_Witness ==
    /\ Detected
    /\ call.facts = <<F_Tokyo38, F_Pop38>>
    /\ History = <<F_Tokyo14, F_Pop14>>
    /\ result # <<>>

\* the year written in the entity of each DATE input (-1: none), read off the
\* inputs; every sentence of DateFacts starts with 'The tower was built', so
\* each pair passes the same-subject heuristic
YearWritten(f) ==
    CASE f.entity = S_1889 -> 1889
      [] f.entity = S_the_year_1889 -> 1889
      [] f.entity = S_1990 -> 1990
      [] OTHER -> -1

YearsDiffer(f, g) ==
    YearWritten(f) # -1 /\ YearWritten(g) # -1 /\ YearWritten(f) # YearWritten(g)

S_101_years_apart == <<"1","0","1"," ","y","e","a","r","s"," ","a","p","a","r","t">>

\* C7: for a new DATE claim and a history of DATE claims on the same subject,
\* detect returns exactly one contradiction per stored claim whose year
\* differs from the new claim's: kind date, severity high, difference
\* '<|y1 - y2|> years apart' ('101 years apart' for 1889 and 1990); equal
\* years and a missing year give none.
C7_DateContradiction ==
    (/\ Detected
     /\ Len(call.facts) = 1
     /\ call.facts[1] \in DateFacts
     /\ \A j \in 1..Len(History) : History[j] \in DateFacts)
        => LET new == call.facts[1]
               hits == {j \in 1..Len(History) : YearsDiffer(new, History[j])}
           IN  /\ Len(result) = Cardinality(hits)
               /\ \A k \in 1..Len(result) :
                      /\ result[k].type = "date_contradiction"
                      /\ result[k].severity = "high"
                      /\ result[k].current_value = new.entity
                      /\ \E j \in hits :
                            /\ result[k].previous_value = History[j].entity
                            /\ result[k].difference =
                                   IntToStr(Abs(YearWritten(new) - YearWritten(History[j])))
                                       \o S_years_apart
                            /\ {YearWritten(new), YearWritten(History[j])} = {1889, 1990}
                                   => result[k].difference = S_101_years_apart

C7_Witness ==
    /\ Detected
    /\ call.facts = <<F_1990>>
    /\ History = <<F_1889>>
    /\ Len(result) = 1
    /\ result[1].difference = S_101_years_apart

----------------------------------------------------------------------------
(* verify_fact applied to one claim under one behaviour of the reference   *)
(* source                                                                  *)

S_it_1889 == <<"i","t"," ","w","a","s"," ","b","u","i","l","t"," ","i","n"," ","1","8","8","9">>
S_X == <<"X">>
S_X_is == <<"X"," ","i","s"," ","a"," ","c","o","m","p","a","n","y">>
S_page_Tokyo == <<"T","o","k","y","o"," ","i","s"," ","t","h","e"," ","c","a","p","i","t","a","l"," ","o","f"," ","J","a","p","a","n","."," ","P","o","p","u","l","a","t","i","o","n",":"," ","1","4"," ","m","i","l","l","i","o","n"," ","(","2","0","2","0",")",".">>
S_summary_Tokyo == <<"T","o","k","y","o"," ","i","s"," ","t","h","e"," ","c","a","p","i","t","a","l"," ","o","f"," ","J","a","p","a","n",".">>
S_page_other == <<"A","b","o","u","t"," ","1","3"," ","m","i","l","l","i","o","n"," ","p","e","o","p","l","e"," ","l","i","v","e"," ","t","h","e","r","e",".">>
S_summary_other == <<"A"," ","c","i","t","y",".">>
S_url_Tokyo == <<"h","t","t","p","s",":","/","/","e","n",".","w","i","k","i","p","e","d","i","a",".","o","r","g","/","w","i","k","i","/","T","o","k","y","o">>
S_timeout == <<"t","i","m","e","o","u","t">>

\* claims whose search key cannot be built (no capitalized phrase in the
\* sentence) or is shorter than 2 characters
F_NoSubject == Fact(S_1889, "DATE", S_it_1889)
F_ShortKey == Fact(S_X, "ORG", S_X_is)

\* lengths of a bridge, and a page with the numbers 2.7 and 1
S_3_km == <<"3"," ","k","m">>
S_1400_meters == <<"1",",","4","0","0"," ","m","e","t","e","r","s">>
S_Bridge_3 == <<"B","r","i","d","g","e"," ","i","s"," ","3"," ","k","m"," ","l","o","n","g">>
S_Bridge_1400 == <<"B","r","i","d","g","e"," ","i","s"," ","1",",","4","0","0"," ","m","e","t","e","r","s"," ","l","o","n","g">>
S_page_bridge == <<"T","h","e"," ","b","r","i","d","g","e"," ","s","p","a","n","s"," ","2",".","7"," ","k","m"," ","o","f"," ","w","a","t","e","r"," ","a","n","d"," ","o","p","e","n","e","d"," ","1"," ","y","e","a","r"," ","a","g","o",".">>
S_summary_bridge == <<"A"," ","b","r","i","d","g","e",".">>
F_Bridge3 == Fact(S_3_km, "MEASUREMENT", S_Bridge_3)
F_Bridge1400 == Fact(S_1400_meters, "MEASUREMENT", S_Bridge_1400)

VerifyInputs ==
    {F_Tokyo14, F_Pop14, F_1889, F_NoSubject, F_ShortKey, F_Time, F_Bridge3, F_Bridge1400}

\* the calls of the lookup that can raise, and "none"
FailPoints == {"none", "page", "exists", "text", "summary", "fullurl", "title"}

PageContents ==
    {[text |-> S_page_Tokyo, summary |-> S_summary_Tokyo],
     [text |-> S_page_other, summary |-> S_summary_other],
     [text |-> S_page_bridge, summary |-> S_summary_bridge]}

\* what the reference source can do for one lookup
PageBehaviours ==
    {[fail |-> f, exists |-> e, text |-> c.text, summary |-> c.summary,
      fullurl |-> S_url_Tokyo, title |-> S_Tokyo, exc |-> S_timeout] :
        f \in FailPoints, e \in BOOLEAN, c \in PageContents}

InitVerify ==
    /\ conversations = EmptyMap
    /\ session_facts = EmptyMap
    /\ req = NoRequests
    /\ \E f \in VerifyInputs, p \in PageBehaviours :
           call = [op |-> "input", fact |-> f, page |-> p]
    /\ result = None
    /\ cleared = [s \in Sessions |-> FALSE]

VerifyFact ==
    /\ call.op = "input"
    /\ call' = [call EXCEPT !.op = "verify_fact"]
    /\ result' = verify_fact(call.fact, call.page)
    /\ UNCHANGED <<conversations, session_facts, req, cleared>>

NextVerify == VerifyFact

SpecVerify == InitVerify /\ [][NextVerify]_vars

\* the search key of the claim under verification (<<>>: none could be built)
SearchKey == _create_search_query(call.fact.entity, call.fact.entity_type, call.fact.sentence)

\* the failure cases of C10: no usable search key, a lookup that raises at
\* some point, or no page
FailureCase == Len(StripWs(SearchKey)) < 2 \/ call.page.fail # "none" \/ ~call.page.exists

\* C10: verify_fact returns a VerifiedClaim for every claim and every
\* behaviour of the reference source, and in every failure case the result is
\* verified = false, tier unknown, with a non-empty note.
C10_VerifyNeverRaises ==
    call.op = "verify_fact" =>
        /\ {"verified", "confidence", "verification_note", "wikipedia_url"} \subseteq DOMAIN result
        /\ result.entity = call.fact.entity
        /\ FailureCase =>
              /\ result.verified = FALSE
              /\ result.confidence = "unknown"
              /\ result.verification_note # <<>>

\* the lookup raises at the last call (page.title) for a page that exists
C10_Witness ==
    /\ call.op = "verify_fact"
    /\ call.fact = F_Pop14
    /\ call.page.fail = "title"
    /\ call.page.exists
    /\ result.confidence = "unknown"
    /\ SubSeq(result.verification_note, 1, Len(S_note_error)) = S_note_error

----------------------------------------------------------------------------
(* format_response applied to one text, one list of verified claims and    *)
(* one list of contradictions                                              *)

S_Japan == <<"J","a","p","a","n">>
S_1457 == <<"1","4","5","7">>
S_Eiffel_Tower == <<"E","i","f","f","e","l"," ","T","o","w","e","r">>
S_Eiffel == <<"E","i","f","f","e","l">>
S_url_Japan == <<"h","t","t","p","s",":","/","/","e","n",".","w","i","k","i","p","e","d","i","a",".","o","r","g","/","w","i","k","i","/","J","a","p","a","n">>
S_url_Eiffel_Tower == <<"h","t","t","p","s",":","/","/","e","n",".","w","i","k","i","p","e","d","i","a",".","o","r","g","/","w","i","k","i","/","E","i","f","f","e","l","_","T","o","w","e","r">>
S_text_formatter_test == <<"T","o","k","y","o"," ","i","s"," ","t","h","e"," ","c","a","p","i","t","a","l"," ","o","f"," ","J","a","p","a","n"," ","w","i","t","h"," ","a"," ","p","o","p","u","l","a","t","i","o","n"," ","o","f"," ","1","4"," ","m","i","l","l","i","o","n"," ","p","e","o","p","l","e","."," ","T","h","e"," ","c","i","t","y"," ","w","a","s"," ","f","o","u","n","d","e","d"," ","i","n"," ","1","4","5","7",".">>
S_text_Eiffel == <<"T","h","e"," ","E","i","f","f","e","l"," ","T","o","w","e","r"," ","w","a","s"," ","d","e","s","i","g","n","e","d"," ","b","y"," ","E","i","f","f","e","l",".">>
S_text_Tokyo_twice == <<"T","o","k","y","o"," ","i","s"," ","b","i","g","."," ","T","o","k","y","o"," ","i","s"," ","o","l","d",".">>
S_test_note_entity == <<"E","n","t","i","t","y"," ","f","o","u","n","d"," ","i","n"," ","W","i","k","i","p","e","d","i","a">>
S_test_note_similar == <<"S","i","m","i","l","a","r"," ","v","a","l","u","e"," ","f","o","u","n","d"," ","i","n"," ","W","i","k","i","p","e","d","i","a">>
S_test_note_value == <<"V","a","l","u","e"," ","n","o","t"," ","f","o","u","n","d"," ","i","n"," ","W","i","k","i","p","e","d","i","a">>

\* a verified claim as verify_fact returns it
Verified(entity, entity_type, verified, confidence, wikipedia_url, verification_note) ==
    [entity |-> entity, entity_type |-> entity_type, verified |-> verified,
     confidence |-> confidence, wikipedia_url |-> wikipedia_url,
     verification_note |-> verification_note]

\* the claims of test_formatter.py, and the two overlapping entity texts
V_Tokyo == Verified(S_Tokyo, "GPE", TRUE, "high", Str(S_url_Tokyo), S_test_note_entity)
V_Japan == Verified(S_Japan, "GPE", TRUE, "high", Str(S_url_Japan), S_test_note_entity)
V_14_million == Verified(S_14_million, "CARDINAL", TRUE, "medium", Str(S_url_Tokyo), S_test_note_similar)
V_1457 == Verified(S_1457, "DATE", FALSE, "low", None, S_test_note_value)
V_Eiffel_Tower == Verified(S_Eiffel_Tower, "FAC", TRUE, "high", Str(S_url_Eiffel_Tower), S_test_note_entity)
V_Eiffel == Verified(S_Eiffel, "PERSON", TRUE, "medium", None, S_test_note_entity)

\* a value found in the page, written with a capital letter
S_14_Million == <<"1","4"," ","M","i","l","l","i","o","n">>
V_14_Million == Verified(S_14_Million, "CARDINAL", TRUE, "high", Str(S_url_Tokyo),
                         S_note_value \o S_14_Million \o S_note_value_found)

VerifiedClaims ==
    {V_Tokyo, V_Japan, V_14_million, V_14_Million, V_1457, V_Eiffel_Tower, V_Eiffel}

\* most claims in one call of format_response
MaxSpans == 2

RECURSIVE SeqsUpTo(_, _)
SeqsUpTo(S, n) ==
    IF n = 0 THEN {<<>>}
    ELSE LET shorter == SeqsUpTo(S, n - 1)
         IN  shorter \cup {Append(q, x) : q \in {t \in shorter : Len(t) = n - 1}, x \in S}

FormatTexts == {S_text_formatter_test, S_text_Eiffel, S_text_Tokyo_twice}

\* no contradiction, or the one detect_contradictions reports for '14 million'
FormatContradictions ==
    {<<>>, detect_contradictions("s1" :> <<F_Tokyo38, F_Pop38>>, "s1", <<F_Pop14>>)}

InitFormat ==
    /\ conversations = EmptyMap
    /\ session_facts = EmptyMap
    /\ req = NoRequests
    /\ \E t \in FormatTexts, vf \in SeqsUpTo(VerifiedClaims, MaxSpans),
          c \in FormatContradictions :
           call = [op |-> "input", text |-> t, verified_facts |-> vf, contradictions |-> c]
    /\ result = None
    /\ cleared = [s \in Sessions |-> FALSE]

FormatResponse ==
    /\ call.op = "input"
    /\ call' = [call EXCEPT !.op = "format_response"]
    /\ result' = format_response(call.text, call.verified_facts, call.contradictions)
    /\ UNCHANGED <<conversations, session_facts, req, cleared>>

NextFormat == FormatResponse

SpecFormat == InitFormat /\ [][NextFormat]_vars

\* the entity texts of the claims given to format_response
EntityTexts == {call.verified_facts[i].entity : i \in 1..Len(call.verified_facts)}

\* how many markers a rendering placed for the entity text e
Markers(log, e) == Cardinality({k \in 1..Len(log) : log[k].text = e /\ log[k].matched})

\* C8: in the html and in the markdown rendering every entity text of the
\* verified claims is marked at most once, also when several claims carry
\* the same entity text.
C8_EachEntityMarkedAtMostOnce ==
    call.op = "format_response" =>
        \A e \in EntityTexts :
            /\ Markers(result.html_log, e) <= 1
            /\ Markers(result.markdown_log, e) <= 1

\* the replacements of a rendering go longest entity text first
LongestFirst(log) ==
    \A k \in 1..(Len(log) - 1) : Len(log[k].text) >= Len(log[k + 1].text)

\* every marker of a rendering replaced characters of the original text only,
\* none of a marker placed earlier
NoNestedMarker(log) ==
    \A k \in 1..Len(log) : log[k].matched => log[k].over = {0}

\* C9: entities are processed longest text first, and when the claims hold
\* both 'Eiffel Tower' and 'Eiffel' the marker of the shorter one is never
\* placed inside what was inserted for the longer one.
C9_NoNestedMarkers ==
    call.op = "format_response" =>
        /\ LongestFirst(result.html_log)
        /\ LongestFirst(result.markdown_log)
        /\ {S_Eiffel_Tower, S_Eiffel} \subseteq EntityTexts =>
              /\ NoNestedMarker(result.html_log)
              /\ NoNestedMarker(result.markdown_log)

\* some claim given to format_response has verified = False
SomeClaimNotVerified ==
    \E i \in 1..Len(call.verified_facts) : call.verified_facts[i].verified = FALSE

\* C17: has_issues of format_response is true exactly when the list of
\* contradictions is not empty or some claim has verified = False; it is
\* false when there is no contradiction and every claim is verified.
C17_HasIssuesIffContradictionOrUnverified ==
    call.op = "format_response" =>
        (result.has_issues <=> (call.contradictions # <<>> \/ SomeClaimNotVerified))

C17_Witness ==
    /\ call.op = "format_response"
    /\ call.contradictions = <<>>
    /\ Len(call.verified_facts) = 2
    /\ SomeClaimNotVerified
    /\ result.has_issues

\* the current values of the contradictions, in lower case
CurrentValues ==
    {Lower(call.contradictions[i].current_value) : i \in 1..Len(call.contradictions)}

\* the status the priority order gives a claim
StatusByPriority(fact) ==
    IF Lower(fact.entity) \in CurrentValues THEN "contradicted"
    ELSE IF fact.verified /\ fact.confidence = "high" THEN "verified"
    ELSE IF fact.verified /\ fact.confidence = "medium" THEN "uncertain"
    ELSE "unverified"

\* C18: the status of each claim is resolved in strict priority order:
\* contradicted if its entity text equals, ignoring case, the current value
\* of some contradiction, otherwise verified if verified with tier high,
\* otherwise uncertain if verified with tier medium, otherwise unverified; a
\* claim that is verified/high and contradicted is rendered as contradicted.
C18_StatusByPriority ==
    call.op = "format_response" =>
        /\ Len(result.fact_spans) = Len(call.verified_facts)
        /\ \A i \in 1..Len(call.verified_facts) :
               /\ result.fact_spans[i].text = call.verified_facts[i].entity
               /\ result.fact_spans[i].status = StatusByPriority(call.verified_facts[i])
               /\ (/\ call.verified_facts[i].verified
                   /\ call.verified_facts[i].confidence = "high"
                   /\ Lower(call.verified_facts[i].entity) \in CurrentValues)
                      => result.fact_spans[i].status = "contradicted"

C18_Witness ==
    /\ call.op = "format_response"
    /\ \E i \in 1..Len(call.verified_facts) :
           /\ call.verified_facts[i].verified
           /\ call.verified_facts[i].confidence = "high"
           /\ call.verified_facts[i].entity # Lower(call.verified_facts[i].entity)
           /\ Lower(call.verified_facts[i].entity) \in CurrentValues
           /\ result.fact_spans[i].status = "contradicted"

----------------------------------------------------------------------------
(* The chat service (backend/main.py): requests in flight on one event     *)
(* loop, the conversation store and the detector's store                   *)

Requests == {"r1", "r2"}

\* most messages kept in the conversation store
MaxMessages == 4

\* the replies the generation collaborator gives, and the claims
\* fact_extractor.extract_facts finds in each
Replies == {"tokyo14", "tokyo38", "paris2", "tokyo14_38"}

ReplyFacts(reply) ==
    CASE reply = "tokyo14" -> <<F_Pop14>>
      [] reply = "tokyo38" -> <<F_Pop38>>
      [] reply = "paris2" -> <<F_Pop2>>
      [] reply = "tokyo14_38" -> <<F_Pop14, F_Pop38>>

\* the reference source during a request: it serves the Tokyo page
WikiUp ==
    [fail |-> "none", exists |-> TRUE, text |-> S_page_Tokyo, summary |-> S_summary_Tokyo,
     fullurl |-> S_url_Tokyo, title |-> S_Tokyo, exc |-> S_timeout]

WikiBehaviours == {WikiUp}

\* the positions of a request: not sent; accepted and waiting for the event
\* loop; after the user message is stored; after detect_contradictions;
\* answered 200; answered 500
Running(r) == req[r].pc \in {"started", "detected"}

LoopIdle == \A q \in Requests : ~Running(q)

\* handlers run in a thread pool: a request starts whatever the others do
CanRun_threadpool(r) == TRUE

\* chat is a coroutine without an await: once the event loop starts it, it
\* runs to its return, so a request starts only when no other is inside chat
CanRun(r) == \A q \in Requests \ {r} : ~Running(q)

\* the value of d.get(key): None or the entry
Lookup(d, key) == IF key \in DOMAIN d THEN Str(d[key]) ELSE None

\* the red circle of main.py, and the summary written for contradictions
E_low == <<"emoji_red">>
S_contradictions_detected == <<" ","c","o","n","t","r","a","d","i","c","t","i","o","n","(","s",")"," ","d","e","t","e","c","t","e","d"," ","i","n"," ","c","o","n","v","e","r","s","a","t","i","o","n">>

\* chat without the adjustment of the report
adjust_confidence_report_none(confidence_report, contradictions) == confidence_report

\* if contradictions: confidence_report['overall_confidence'] = 'low' ...
adjust_confidence_report(confidence_report, contradictions) ==
    IF Len(contradictions) > 0
    THEN [confidence_report EXCEPT
              !.overall_confidence = "low",
              !.color = S_red,
              !.emoji = E_low,
              !.summary = E_uncertain \o <<" ", " ">> \o IntToStr(Len(contradictions))
                              \o S_contradictions_detected]
    ELSE confidence_report

\* a request not in flight.  conv_before and facts_before keep, while the
\* request is inside chat, what the two stores held for its session when it
\* entered; committed names, once it has failed, the stores that then differ
\* from that
IdleRequest ==
    [pc |-> "idle", sid |-> "s1", facts |-> <<>>, contradictions |-> <<>>,
     conv_before |-> None, facts_before |-> None, committed |-> {}]

\* del conversations[session_id] without the membership test
del_conversation_unguarded(convs, session_id) ==
    IF session_id \in DOMAIN convs
    THEN [k \in DOMAIN convs \ {session_id} |-> convs[k]]
    ELSE Raise("KeyError")

\* if session_id in conversations: del conversations[session_id]
del_conversation(convs, session_id) ==
    IF session_id \in DOMAIN convs
    THEN [k \in DOMAIN convs \ {session_id} |-> convs[k]]
    ELSE convs

\* get_history(session_id)
get_history(convs, session_id) ==
    IF session_id \notin DOMAIN convs
    THEN [status |-> 404, history |-> <<>>]
    ELSE [status |-> 200, history |-> convs[session_id]]

Init ==
    /\ conversations = EmptyMap
    /\ session_facts = EmptyMap
    /\ req = [r \in Requests |-> IdleRequest]
    /\ call = [op |-> "init", sid |-> "s1", had |-> {}]
    /\ result = None
    /\ cleared = [s \in Sessions |-> FALSE]

\* a client sends POST /chat for session s; of the requests not sent, the
\* first in order is the next one sent
Arrive(r, s) ==
    /\ req[r].pc = "idle"
    /\ r = "r1" \/ req["r1"].pc # "idle"
    /\ req' = [req EXCEPT ![r] = [IdleRequest EXCEPT !.pc = "queued", !.sid = s]]
    /\ UNCHANGED <<conversations, session_facts, call, result, cleared>>

\* chat up to the call of the generation collaborator: the conversation is
\* created if absent and the user message appended
ChatStart(r) ==
    LET s == req[r].sid
        conv == IF s \in DOMAIN conversations THEN conversations[s] ELSE <<>>
    IN  /\ req[r].pc = "queued"
        /\ CanRun(r)
        /\ TotalFacts(conversations) + 2 <= MaxMessages
        /\ conversations' = (s :> Append(conv, [role |-> "user", parts |-> "message"]))
                                @@ conversations
        /\ req' = [req EXCEPT ![r] =
                      [@ EXCEPT !.pc = "started",
                                !.conv_before = Lookup(conversations, s),
                                !.facts_before = Lookup(session_facts, s)]]
        /\ UNCHANGED <<session_facts, call, result, cleared>>

\* send_message raises: the handler answers 500
GenerationFails(r) ==
    /\ req[r].pc = "started"
    /\ req' = [req EXCEPT ![r] =
                  [IdleRequest EXCEPT
                      !.pc = "failed",
                      !.sid = req[r].sid,
                      !.committed =
                          {"conversations" : x \in {Lookup(conversations, req[r].sid)}
                                                      \ {req[r].conv_before}}
                          \cup {"session_facts" : x \in {Lookup(session_facts, req[r].sid)}
                                                          \ {req[r].facts_before}}]]
    /\ call' = [op |-> "chat", sid |-> req[r].sid, had |-> {}]
    /\ result' = [status |-> 500]
    /\ UNCHANGED <<conversations, session_facts, cleared>>

\* send_message returns: the reply is appended, its claims extracted,
\* verified and compared with the session's history
GenerateAndDetect(r, reply, wiki) ==
    LET s == req[r].sid
        extracted_facts == ReplyFacts(reply)
        verified_facts ==
            verify_facts(extracted_facts, [i \in 1..Len(extracted_facts) |-> wiki]).value
        contradictions == detect_contradictions(session_facts, s, verified_facts)
    IN  /\ req[r].pc = "started"
        /\ TotalFacts(session_facts) + Len(extracted_facts) <= MaxFacts
        /\ conversations' = [conversations EXCEPT ![s] = Append(@, [role |-> "model", parts |-> reply])]
        /\ req' = [req EXCEPT ![r] =
                      [@ EXCEPT !.pc = "detected",
                                !.facts = verified_facts,
                                !.contradictions = contradictions]]
        /\ UNCHANGED <<session_facts, call, result, cleared>>

\* chat from add_facts to its return
AppendAndRespond(r) ==
    LET s == req[r].sid
    IN  /\ req[r].pc = "detected"
        /\ session_facts' = add_facts(session_facts, s, req[r].facts)
        /\ req' = [req EXCEPT ![r] = [IdleRequest EXCEPT !.pc = "done", !.sid = s]]
        /\ call' = [op |-> "chat", sid |-> s, had |-> {}]
        /\ result' = [status |-> 200, session_id |-> s,
                      confidence_report |->
                          adjust_confidence_report(score_response(req[r].facts),
                                                   req[r].contradictions),
                      contradictions |-> req[r].contradictions]
        /\ cleared' = [cleared EXCEPT ![s] = FALSE]
        /\ UNCHANGED conversations

\* the client has its answer
Retire(r) ==
    /\ req[r].pc \in {"done", "failed"}
    /\ req' = [req EXCEPT ![r] = IdleRequest]
    /\ UNCHANGED <<conversations, session_facts, call, result, cleared>>

\* DELETE /session/{session_id}
DeleteSession(s) ==
    LET deleted == del_conversation(conversations, s)
        had == {"conversations" : x \in {s} \cap DOMAIN conversations}
                   \cup {"session_facts" : x \in {s} \cap DOMAIN session_facts}
    IN  /\ LoopIdle
        /\ call' = [op |-> "delete_session", sid |-> s, had |-> had]
        /\ IF deleted = Raise("KeyError")
           THEN /\ result' = [status |-> 500]
                /\ UNCHANGED <<conversations, session_facts, cleared>>
           ELSE /\ conversations' = deleted
                /\ session_facts' = clear_session(session_facts, s)
                /\ cleared' = [cleared EXCEPT ![s] = TRUE]
                /\ result' = [status |-> 200]
        /\ UNCHANGED req

\* GET /history/{session_id}
GetHistory(s) ==
    /\ LoopIdle
    /\ call' = [op |-> "get_history", sid |-> s, had |-> {}]
    /\ result' = get_history(conversations, s)
    /\ UNCHANGED <<conversations, session_facts, req, cleared>>

Next ==
    \/ \E r \in Requests, s \in Sessions : Arrive(r, s)
    \/ \E r \in Requests : ChatStart(r)
    \/ \E r \in Requests : GenerationFails(r)
    \/ \E r \in Requests, reply \in Replies, wiki \in WikiBehaviours :
           GenerateAndDetect(r, reply, wiki)
    \/ \E r \in Requests : AppendAndRespond(r)
    \/ \E r \in Requests : Retire(r)
    \/ \E s \in Sessions : DeleteSession(s)
    \/ \E s \in Sessions : GetHistory(s)

Spec == Init /\ [][Next]_vars

----------------------------------------------------------------------------
(* Properties of the chat service                                          *)

\* C1: a chat request whose generation step fails answers one error and
\* commits nothing: the conversation and the detector's history of its
\* session are what they were before the request.
C1_FailedGenerationCommitsNothing ==
    \A r \in Requests : req[r].pc = "failed" => req[r].committed = {}

\* C2: two chat requests in flight on one session never interleave their
\* detect-then-append sequences: no two of them are both between
\* detect_contradictions and add_facts, and the history a request detected
\* against is still the session's history when it appends.
C2_DetectThenAppendSerialized ==
    \A r \in Requests :
        req[r].pc = "detected" =>
            /\ Lookup(session_facts, req[r].sid) = req[r].facts_before
            /\ \A q \in Requests \ {r} :
                   req[q].sid = req[r].sid => req[q].pc # "detected"

\* a request has compared its claims with a non-empty history and not yet
\* appended them, while a second request for the same session is in flight
C2_Witness ==
    \E r \in Requests, q \in Requests :
        /\ r # q
        /\ req[r].pc = "detected"
        /\ req[q].pc = "queued"
        /\ req[q].sid = req[r].sid
        /\ req[r].sid \in DOMAIN session_facts
        /\ req[r].contradictions # <<>>

\* C5: the delete-session operation never fails and leaves its session in
\* neither store, so that a history fetch for it answers 404.
C5_DeleteClearsBothStores ==
    [][\A s \in Sessions :
          DeleteSession(s) =>
              /\ result'.status = 200
              /\ s \notin DOMAIN conversations'
              /\ s \notin DOMAIN session_facts'
              /\ get_history(conversations', s).status = 404
              /\ \A fs \in FactLists : detect_contradictions(session_facts', s, fs) = <<>>]_vars

\* a session deleted that was in the conversation store only
C5_Witness ==
    /\ call.op = "delete_session"
    /\ call.had = {"conversations"}
    /\ result.status = 200

----------------------------------------------------------------------------
(* verify_facts applied to one list of claims, the reference source       *)
(* behaving in its own way for each lookup                                 *)

\* most claims in one call of verify_facts
MaxBatch == 2

BatchFacts == {F_Tokyo14, F_Pop14, F_NoSubject}

\* the reference source serves the page, raises at wiki.page(), has no page,
\* or raises at page.title
BatchPages ==
    {p \in PageBehaviours :
        /\ p.text = S_page_Tokyo
        /\ \/ p.fail \in {"none", "page", "title"} /\ p.exists
           \/ p.fail = "none" /\ ~p.exists}

BatchLookups == {[fact |-> f, page |-> p] : f \in BatchFacts, p \in BatchPages}

InitBatch ==
    /\ conversations = EmptyMap
    /\ session_facts = EmptyMap
    /\ req = NoRequests
    /\ \E b \in SeqsUpTo(BatchLookups, MaxBatch) :
           call = [op |-> "input",
                   facts |-> [i \in 1..Len(b) |-> b[i].fact],
                   wiki |-> [i \in 1..Len(b) |-> b[i].page]]
    /\ result = None
    /\ cleared = [s \in Sessions |-> FALSE]

VerifyFacts ==
    /\ call.op = "input"
    /\ call' = [call EXCEPT !.op = "verify_facts"]
    /\ result' = verify_facts(call.facts, call.wiki)
    /\ UNCHANGED <<conversations, session_facts, req, cleared>>

NextBatch == VerifyFacts

SpecBatch == InitBatch /\ [][NextBatch]_vars

\* C11: verify_facts returns, for every list of claims, a list of the same
\* length whose i-th element is the verification of the i-th claim alone:
\* a failed lookup or a skipped search key changes no other element and
\* never aborts the batch.
C11_BatchIsolatedAndOrdered ==
    call.op = "verify_facts" =>
        /\ result.type = "return"
        /\ Len(result.value) = Len(call.facts)
        /\ \A i \in 1..Len(call.facts) :
               /\ result.value[i] = verify_fact(call.facts[i], call.wiki[i])
               /\ result.value[i].entity = call.facts[i].entity
               /\ result.value[i].sentence = call.facts[i].sentence

\* the lookup of the first claim raises and the second claim, a different
\* one, is verified all the same
C11_Witness ==
    /\ call.op = "verify_facts"
    /\ Len(call.facts) = 2
    /\ call.facts[1] # call.facts[2]
    /\ call.wiki[1].fail = "page"
    /\ result.type = "return"
    /\ result.value[1].confidence = "unknown"
    /\ result.value[2].verified

----------------------------------------------------------------------------
(* score_response applied to one list of verified claims                   *)

S_2_2_million == <<"2",".","2"," ","m","i","l","l","i","o","n">>
S_Fake_City == <<"F","a","k","e"," ","C","i","t","y">>
S_unknown_city == <<"u","n","k","n","o","w","n"," ","c","i","t","y">>

\* a claim of each (verified, confidence) pair verify_fact gives, as
\* test_scorer.py writes them
ScoredFacts ==
    {[entity |-> S_Tokyo, entity_type |-> "GPE", verified |-> TRUE, confidence |-> "high"],
     [entity |-> S_2_2_million, entity_type |-> "CARDINAL", verified |-> TRUE, confidence |-> "medium"],
     [entity |-> S_Fake_City, entity_type |-> "GPE", verified |-> FALSE, confidence |-> "low"],
     [entity |-> S_unknown_city, entity_type |-> "GPE", verified |-> FALSE, confidence |-> "unknown"]}

\* most claims in one call of score_response
MaxScored == 5

InitScore ==
    /\ conversations = EmptyMap
    /\ session_facts = EmptyMap
    /\ req = NoRequests
    /\ \E vf \in SeqsUpTo(ScoredFacts, MaxScored) :
           call = [op |-> "input", verified_facts |-> vf]
    /\ result = None
    /\ cleared = [s \in Sessions |-> FALSE]

ScoreResponse ==
    /\ call.op = "input"
    /\ call' = [call EXCEPT !.op = "score_response"]
    /\ result' = score_response(call.verified_facts)
    /\ UNCHANGED <<conversations, session_facts, req, cleared>>

NextScore == ScoreResponse

SpecScore == InitScore /\ [][NextScore]_vars

\* how many of the claims scored have the tier c
TierCount(c) ==
    Cardinality({i \in 1..Len(call.verified_facts) : call.verified_facts[i].confidence = c})

\* five times the sum of the tier weights high = 1.0, medium = 0.6,
\* low = 0.2, unknown = 0.0 of the claims scored
WeightSum5 == 5 * TierCount("high") + 3 * TierCount("medium") + TierCount("low")

\* the empty list scores 0.0 with level unknown
EmptyScoresZero ==
    Len(call.verified_facts) = 0 =>
        result.confidence_score = 0 /\ result.overall_confidence = "unknown"

\* C12 as stated: the score returned lies in [0, 1] and equals the average
\* of the tier weights; for the empty list it is 0.0 and the level unknown.
C12_ScoreIsAverage ==
    call.op = "score_response" =>
        /\ result.confidence_score >= 0 /\ result.confidence_score <= 100
        /\ EmptyScoresZero
        /\ Len(call.verified_facts) > 0 =>
               result.confidence_score * 5 * Len(call.verified_facts) = 100 * WeightSum5

\* C12, amended: the score returned lies in [0, 1] and is the average of
\* the tier weights rounded to two decimals (within half a hundredth of
\* it); for the empty list it is 0.0 and the level unknown.
C12_ScoreIsRoundedAverage ==
    call.op = "score_response" =>
        /\ result.confidence_score >= 0 /\ result.confidence_score <= 100
        /\ EmptyScoresZero
        /\ Len(call.verified_facts) > 0 =>
               LET n5 == 5 * Len(call.verified_facts)
               IN  2 * Abs(result.confidence_score * n5 - 100 * WeightSum5) <= n5

\* two high claims and a medium one: the average 2.6 / 3 is returned as 0.87
C12_Witness ==
    /\ call.op = "score_response"
    /\ Len(call.verified_facts) = 3
    /\ TierCount("high") = 2
    /\ TierCount("medium") = 1
    /\ result.confidence_score = 87

\* C13: whenever the low-tier claims are more than half of a non-empty
\* list, score_response returns level low, whatever the score is.
C13_MajorityLow ==
    call.op = "score_response" /\ Len(call.verified_facts) > 0
        /\ 2 * TierCount("low") > Len(call.verified_facts)
    => result.overall_confidence = "low"

\* three low claims and two high ones: the score 0.52 alone would give
\* medium
C13_Witness ==
    /\ call.op = "score_response"
    /\ TierCount("low") = 3
    /\ TierCount("high") = 2
    /\ result.confidence_score = 52
    /\ result.overall_confidence = "low"

----------------------------------------------------------------------------
(* _check_fact_pair applied to one new claim and one claim of the history  *)

S_5_kg == <<"5"," ","k","g">>
S_50_kg == <<"5","0"," ","k","g">>
S_rock_5 == <<"T","h","e"," ","r","o","c","k"," ","w","e","i","g","h","s"," ","5"," ","k","g">>
S_rock_50 == <<"T","h","e"," ","r","o","c","k"," ","w","e","i","g","h","s"," ","5","0"," ","k","g">>
S_20_degrees == <<"2","0"," ","d","e","g","r","e","e","s">>
S_40_degrees == <<"4","0"," ","d","e","g","r","e","e","s">>
S_room_20 == <<"T","h","e"," ","r","o","o","m"," ","h","a","s"," ","2","0"," ","d","e","g","r","e","e","s">>
S_room_40 == <<"T","h","e"," ","r","o","o","m"," ","h","a","s"," ","4","0"," ","d","e","g","r","e","e","s">>
S_Paris == <<"P","a","r","i","s">>
S_Paris_France == <<"P","a","r","i","s"," ","i","s"," ","i","n"," ","F","r","a","n","c","e">>
S_Paris_Germany == <<"P","a","r","i","s"," ","i","s"," ","i","n"," ","G","e","r","m","a","n","y">>

F_Weight5 == Fact(S_5_kg, "WEIGHT", S_rock_5)
F_Weight50 == Fact(S_50_kg, "WEIGHT", S_rock_50)
F_Temp20 == Fact(S_20_degrees, "TEMPERATURE", S_room_20)
F_Temp40 == Fact(S_40_degrees, "TEMPERATURE", S_room_40)
F_ParisFrance == Fact(S_Paris, "GPE", S_Paris_France)
F_ParisGermany == Fact(S_Paris, "GPE", S_Paris_Germany)

PairFacts ==
    {F_Pop14, F_Pop38, F_Weight5, F_Weight50, F_Temp20, F_Temp40,
     F_1889, F_1990, F_ParisFrance, F_ParisGermany, F_Time}

InitPair ==
    /\ conversations = EmptyMap
    /\ session_facts = EmptyMap
    /\ req = NoRequests
    /\ \E f1 \in PairFacts, f2 \in PairFacts :
           call = [op |-> "input", fact1 |-> f1, fact2 |-> f2]
    /\ result = None
    /\ cleared = [s \in Sessions |-> FALSE]

CheckFactPair ==
    /\ call.op = "input"
    /\ call' = [call EXCEPT !.op = "_check_fact_pair"]
    /\ result' = _check_fact_pair(call.fact1, call.fact2)
    /\ UNCHANGED <<conversations, session_facts, req, cleared>>

NextPair == CheckFactPair

SpecPair == InitPair /\ [][NextPair]_vars

\* the claim f, had it been extracted as a POPULATION claim
AsPopulation(f) == [f EXCEPT !.entity_type = "POPULATION"]

\* C14: two WEIGHT claims, or two TEMPERATURE claims, are compared by the
\* numeric rule exactly as two POPULATION claims are: same-subject claims
\* whose values differ by more than 20% are flagged.
C14_NumericRuleCoversWeightAndTemperature ==
    call.op = "_check_fact_pair"
        /\ call.fact1.entity_type = call.fact2.entity_type
        /\ call.fact1.entity_type \in {"WEIGHT", "TEMPERATURE"}
    => /\ result = _check_fact_pair(AsPopulation(call.fact1), AsPopulation(call.fact2))
       /\ call.fact1.entity # call.fact2.entity => result.type = "numeric_contradiction"

\* the fields of a Contradiction
ContradictionFields ==
    {"type", "severity", "previous_claim", "current_claim",
     "previous_value", "current_value", "difference", "message"}

\* C15: every contradiction found for a pair, of any kind, carries all the
\* fields of the data model, with severity medium or high.
C15_ContradictionHasAllFields ==
    call.op = "_check_fact_pair" /\ result # None
    => /\ ContradictionFields \subseteq DOMAIN result
       /\ result.severity \in {"medium", "high"}

----------------------------------------------------------------------------
(* Sessions are independent                                                *)

\* request r goes from one position to another: ChatStart takes it from
\* queued to started, GenerationFails from started to failed,
\* GenerateAndDetect from started to detected, AppendAndRespond from
\* detected to done, and no other action does
Moves(r, from, to) == req[r].pc = from /\ req'[r].pc = to

\* the step is an operation of the chat service on a session other than t
StepOnOtherSession(t) ==
    \/ \E r \in Requests :
           /\ req[r].sid # t
           /\ \/ Moves(r, "queued", "started")
              \/ Moves(r, "started", "failed")
              \/ Moves(r, "started", "detected")
              \/ Moves(r, "detected", "done")
    \/ \E s \in Sessions \ {t} : DeleteSession(s) \/ GetHistory(s)

\* C16: a chat (successful or failed), a delete or a history fetch on one
\* session leaves the conversation and the detector history of every other
\* session t as they were, and with them the result of detect(t, claims).
C16_SessionsIsolated ==
    [][\A t \in Sessions :
          StepOnOtherSession(t) =>
              /\ Lookup(conversations', t) = Lookup(conversations, t)
              /\ Lookup(session_facts', t) = Lookup(session_facts, t)
              /\ session_facts' # session_facts =>
                     detect_contradictions(session_facts', t, ReplyFacts("tokyo14_38"))
                         = detect_contradictions(session_facts, t, ReplyFacts("tokyo14_38"))]_vars

\* a session that was in both stores is deleted while another session has a
\* conversation and a detector history
C16_Witness ==
    /\ call.op = "delete_session"
    /\ call.had = {"conversations", "session_facts"}
    /\ \E t \in Sessions \ {call.sid} :
           t \in DOMAIN conversations /\ t \in DOMAIN session_facts

----------------------------------------------------------------------------
(* Detection before append within a chat turn, checked under Spec          *)

\* the claim history a request found for its session when it entered chat
PreTurnHistory(r) ==
    IF req[r].facts_before = None THEN <<>> ELSE req[r].facts_before.v

\* C19: within one chat turn detection runs before the append: the turn's
\* verified claims are compared only with the claims of earlier turns of the
\* session, never with themselves or each other, and after a successful turn
\* the session's history is the history before the turn followed by the
\* turn's verified claims in order, with or without contradictions found.
C19_DetectBeforeAppend ==
    [][\A r \in Requests :
          AppendAndRespond(r) =>
              /\ session_facts'[req[r].sid] = PreTurnHistory(r) \o req[r].facts
              /\ result'.contradictions
                     = DetectLoop(req[r].facts, PreTurnHistory(r), 1, 1, <<>>)
              /\ \A i \in 1..Len(result'.contradictions) :
                     \E j \in 1..Len(PreTurnHistory(r)) :
                         result'.contradictions[i].previous_claim
                             = PreTurnHistory(r)[j].sentence]_vars

\* a first turn whose two claims contradict each other: none is reported,
\* both are in the history
C19_Witness ==
    /\ call.op = "chat"
    /\ result.status = 200
    /\ result.contradictions = <<>>
    /\ Len(conversations[call.sid]) = 2
    /\ Len(session_facts[call.sid]) = 2
    /\ session_facts[call.sid][1].entity = S_14_million
    /\ session_facts[call.sid][2].entity = S_38_million
    /\ DetectLoop(<<session_facts[call.sid][2]>>, <<session_facts[call.sid][1]>>, 1, 1, <<>>)
           # <<>>

----------------------------------------------------------------------------
(* The history of a session only grows, checked under SpecDetector         *)

\* the claims the store holds for session s, none if it has no entry
HistoryOf(store, s) == IF s \in DOMAIN store THEN store[s] ELSE <<>>

IsPrefixOf(p, q) == Len(p) <= Len(q) /\ SubSeq(q, 1, Len(p)) = p

\* the step is a call of op for session s: each action of the detector
\* records its own call, and no other
CallOf(op, s) == call'.op = op /\ call'.sid = s

\* C20: the history of a session is append-only: over add and detect calls
\* without a clear, the history at an earlier point is a prefix of the
\* history at every later point; add appends the given claims in order and
\* creates the session if absent, nothing reorders, deduplicates or removes
\* entries, and only clear empties the history.
C20_HistoryAppendOnly ==
    [][\A s \in Sessions :
          LET old == HistoryOf(session_facts, s)
              new == HistoryOf(session_facts', s)
          IN  /\ ~CallOf("clear_session", s) => IsPrefixOf(old, new)
              /\ CallOf("add_facts", s) =>
                     /\ s \in DOMAIN session_facts'
                     /\ \A fs \in FactLists : AddFacts(s, fs) => new = old \o fs
              /\ CallOf("detect_contradictions", s) => session_facts' = session_facts
              /\ CallOf("clear_session", s) => s \notin DOMAIN session_facts'
              /\ (old # <<>> /\ new = <<>>) => CallOf("clear_session", s)]_vars

\* the same claim added twice to a session: the history holds it twice
C20_Witness ==
    /\ call.op = "add_facts"
    /\ Len(HistoryOf(session_facts, call.sid)) = 2
    /\ HistoryOf(session_facts, call.sid)[1] = HistoryOf(session_facts, call.sid)[2]

----------------------------------------------------------------------------
(* detect_contradictions reads only, checked under SpecDetector            *)

\* C21: detect is a pure read: for every session id and list of claims it
\* leaves the histories of all sessions as they were and creates no entry
\* for an unknown session, and for a session without history it returns an
\* empty list.
C21_DetectIsPureRead ==
    [][\A s \in Sessions :
          CallOf("detect_contradictions", s) =>
              /\ DOMAIN session_facts' = DOMAIN session_facts
              /\ \A t \in Sessions :
                     HistoryOf(session_facts', t) = HistoryOf(session_facts, t)
              /\ s \notin DOMAIN session_facts => result' = <<>>]_vars

\* detect on a session without an entry while another session has a history
C21_Witness ==
    /\ call.op = "detect_contradictions"
    /\ call.facts # <<>>
    /\ call.sid \notin DOMAIN session_facts
    /\ \E t \in DOMAIN session_facts : session_facts[t] # <<>>
    /\ result = <<>>

----------------------------------------------------------------------------
(* Which pairs detect_contradictions flags, checked under SpecDetector     *)

\* the entity types of the numeric, the date and the entity rule
RuleTypes ==
    {"CARDINAL", "QUANTITY", "MONEY", "MEASUREMENT", "POPULATION"}
        \cup {"DATE"} \cup {"GPE", "LOC", "PERSON", "ORG"}

\* the kind of contradiction each rule reports
KindOfType(entity_type) ==
    IF entity_type = "DATE" THEN "date_contradiction"
    ELSE IF entity_type \in {"GPE", "LOC", "PERSON", "ORG"} THEN "entity_contradiction"
    ELSE "numeric_contradiction"

\* the pairs (new claim, stored claim) a reported contradiction can come
\* from: its two claims are their sentences, both have one type, a type of
\* the rule that reports this kind
PairsOf(contradiction) ==
    {p \in (1..Len(call.facts)) \X (1..Len(History)) :
        /\ call.facts[p[1]].sentence = contradiction.current_claim
        /\ History[p[2]].sentence = contradiction.previous_claim
        /\ call.facts[p[1]].entity_type = History[p[2]].entity_type
        /\ call.facts[p[1]].entity_type \in RuleTypes
        /\ KindOfType(call.facts[p[1]].entity_type) = contradiction.type}

\* C22: detect flags a pair of claims only if both have the same entity
\* type and the type belongs to the numeric, date or entity rule; pairs of
\* different types and pairs of a type outside the rules (TIME) produce no
\* contradiction; the contradictions returned are at most
\* |new claims| x |history|, one per flagged pair, none removed as duplicate.
C22_OnlySameRuleTypePairsFlagged ==
    Detected =>
        LET Flagged ==
                {p \in (1..Len(call.facts)) \X (1..Len(History)) :
                    _check_fact_pair(call.facts[p[1]], History[p[2]]) # None}
        IN  /\ \A p \in Flagged :
                   /\ call.facts[p[1]].entity_type = History[p[2]].entity_type
                   /\ call.facts[p[1]].entity_type \in RuleTypes
            /\ \A k \in 1..Len(result) : PairsOf(result[k]) # {}
            /\ Len(result) = Cardinality(Flagged)
            /\ Len(result) <= Len(call.facts) * Len(History)

\* two contradictions for the two claims of one sentence against the two
\* claims of an earlier sentence: both are reported
C22_Witness ==
    /\ Detected
    /\ Len(call.facts) = 2
    /\ Len(History) = 2
    /\ Len(result) = 2
    /\ result[1].current_claim = result[2].current_claim
    /\ result[1].previous_claim = result[2].previous_claim

----------------------------------------------------------------------------
(* detect_contradictions on numeric claims about one subject               *)

S_0_meters == <<"0"," ","m","e","t","e","r","s">>
S_rod_0 == <<"T","h","e"," ","r","o","d"," ","i","s"," ","0"," ","m","e","t","e","r","s"," ","l","o","n","g">>
S_2_4_meters == <<"2",".","4"," ","m","e","t","e","r","s">>
S_rod_2_4 == <<"T","h","e"," ","r","o","d"," ","i","s"," ","2",".","4"," ","m","e","t","e","r","s"," ","l","o","n","g">>
S_3_meters == <<"3"," ","m","e","t","e","r","s">>
S_rod_3 == <<"T","h","e"," ","r","o","d"," ","i","s"," ","3"," ","m","e","t","e","r","s"," ","l","o","n","g">>
S_4_meters == <<"4"," ","m","e","t","e","r","s">>
S_rod_4 == <<"T","h","e"," ","r","o","d"," ","i","s"," ","4"," ","m","e","t","e","r","s"," ","l","o","n","g">>
S_5_meters == <<"5"," ","m","e","t","e","r","s">>
S_rod_5 == <<"T","h","e"," ","r","o","d"," ","i","s"," ","5"," ","m","e","t","e","r","s"," ","l","o","n","g">>
S_10_meters == <<"1","0"," ","m","e","t","e","r","s">>
S_rod_10 == <<"T","h","e"," ","r","o","d"," ","i","s"," ","1","0"," ","m","e","t","e","r","s"," ","l","o","n","g">>
S_several_meters == <<"s","e","v","e","r","a","l"," ","m","e","t","e","r","s">>
S_rod_several == <<"T","h","e"," ","r","o","d"," ","i","s"," ","s","e","v","e","r","a","l"," ","m","e","t","e","r","s"," ","l","o","n","g">>
F_Rod_0 == Fact(S_0_meters, "MEASUREMENT", S_rod_0)
F_Rod_2_4 == Fact(S_2_4_meters, "MEASUREMENT", S_rod_2_4)
F_Rod_3 == Fact(S_3_meters, "MEASUREMENT", S_rod_3)
F_Rod_4 == Fact(S_4_meters, "MEASUREMENT", S_rod_4)
F_Rod_5 == Fact(S_5_meters, "MEASUREMENT", S_rod_5)
F_Rod_10 == Fact(S_10_meters, "MEASUREMENT", S_rod_10)
F_Rod_several == Fact(S_several_meters, "MEASUREMENT", S_rod_several)

\* lengths of one rod: values 20%, 30%, 50% and more apart, the value 0, and
\* an entity without a number
NumericFacts == {F_Rod_0, F_Rod_2_4, F_Rod_3, F_Rod_4, F_Rod_5, F_Rod_10, F_Rod_several}

\* most new claims in one call of detect_contradictions
MaxNew == 2

\* some pair of the two loops raises
DetectRaises(new_facts, previous_facts) ==
    \E i \in 1..Len(new_facts), j \in 1..Len(previous_facts) :
        _check_fact_pair(new_facts[i], previous_facts[j]).type = "raise"

\* how a call of detect_contradictions ends: with the list returned or with
\* the exception of the first pair that raises
detect_contradictions_outcome(facts, session_id, new_facts) ==
    IF session_id \in DOMAIN facts /\ DetectRaises(new_facts, facts[session_id])
    THEN detect_contradictions(facts, session_id, new_facts)
    ELSE Return(detect_contradictions(facts, session_id, new_facts))

InitNumeric ==
    /\ conversations = EmptyMap
    /\ \E previous_facts \in SeqsUpTo(NumericFacts, 1) :
           session_facts = add_facts(EmptyMap, "s1", previous_facts)
    /\ req = NoRequests
    /\ \E new_facts \in SeqsUpTo(NumericFacts, MaxNew) :
           call = [op |-> "input", sid |-> "s1", facts |-> new_facts]
    /\ result = None
    /\ cleared = [s \in Sessions |-> FALSE]

DetectNumeric ==
    /\ call.op = "input"
    /\ call' = [call EXCEPT !.op = "detect_contradictions"]
    /\ result' = detect_contradictions_outcome(session_facts, call.sid, call.facts)
    /\ UNCHANGED <<conversations, session_facts, req, cleared>>

NextNumeric == DetectNumeric

SpecNumeric == InitNumeric /\ [][NextNumeric]_vars

\* one new claim was compared with one stored claim, and both hold a number
OnePairCompared ==
    /\ Detected
    /\ Len(call.facts) = 1
    /\ Len(History) = 1
    /\ _extract_number(call.facts[1].entity).ok
    /\ _extract_number(History[1].entity).ok

\* the two values of the pair on one integer scale
NewValue == Scaled(_extract_number(call.facts[1].entity), _extract_number(History[1].entity))
OldValue == Scaled(_extract_number(History[1].entity), _extract_number(call.facts[1].entity))

\* C23: for two numeric claims of one type that both parse and pass the
\* same-subject test, with d = |a - b| / max(a, b) x 100, a contradiction is
\* flagged iff d > 20, its severity is high if d > 50 and medium otherwise
\* (d = 20 is not flagged, d = 50 is medium), and the outcome is the same
\* whichever of the two claims is the new one.
C23_NumericThresholds ==
    (OnePairCompared /\ Max(NewValue, OldValue) > 0) =>
        LET d == Abs(NewValue - OldValue)
            hi == Max(NewValue, OldValue)
            swapped == _check_fact_pair(History[1], call.facts[1])
        IN  /\ result.value # <<>> <=> 100 * d > 20 * hi
            /\ result.value # <<>> =>
                   result.value[1].severity = IF 100 * d > 50 * hi THEN "high" ELSE "medium"
            /\ swapped # None <=> result.value # <<>>
            /\ swapped # None => swapped.severity = result.value[1].severity

\* C27: detect is total: for every history and every list of new claims it
\* returns a list and never raises; a pair that cannot be compared (a value
\* that does not parse, or two values 0) yields no contradiction.
C27_DetectIsTotal ==
    Detected => result.type = "return"

----------------------------------------------------------------------------
(* The level of a report, checked under SpecScore                          *)

\* C24: for a non-empty list the level is low if the low-tier claims are a
\* strict majority; otherwise it is high if the average weight is at least
\* 0.8, medium if it is at least 0.5 and below 0.8, and low if it is below
\* 0.5; it is never unknown, also when every claim has tier unknown.
C24_LevelDecisionOrder ==
    (call.op = "score_response" /\ Len(call.verified_facts) > 0) =>
        LET n == Len(call.verified_facts)
        IN  /\ result.overall_confidence # "unknown"
            /\ result.overall_confidence =
                   IF 2 * TierCount("low") > n THEN "low"
                   ELSE IF WeightSum5 >= 4 * n THEN "high"
                   ELSE IF 2 * WeightSum5 >= 5 * n THEN "medium"
                   ELSE "low"

----------------------------------------------------------------------------
(* Which claims are verified by value, checked under SpecVerify            *)

\* the lookup answers with a page for a usable search key
PageFound == Len(StripWs(SearchKey)) >= 2 /\ call.page.fail = "none" /\ call.page.exists

\* C25: every claim whose entity type is not name-like is verified by value
\* matching: for each value-like type, TIME included, the search key is the
\* subject derived from the sentence, not the entity text, and when the page
\* exists the result has a tier in {high, medium, low}, never unknown.
C25_ValueLikeVerifiedByValue ==
    (call.op = "verify_fact" /\ call.fact.entity_type \notin {"GPE", "LOC", "PERSON", "ORG"}) =>
        /\ SearchKey = _extract_subject_from_sentence(call.fact.sentence)
        /\ PageFound => result.confidence \in {"high", "medium", "low"}

\* the entity text and the page text without whitespace and commas
EntityClean == Strip(call.fact.entity, Whitespace \cup {","})
PageClean == Strip(Lower(call.page.text), Whitespace \cup {","})

\* the number the entity text starts with, thousands separators removed
LeadingNumber == ParseFloat(FirstRun(Strip(call.fact.entity, {","}), DigitChars \cup {"."}))

\* the bare numbers of the page text
PageNumbers ==
    LET runs == NumberRuns(Lower(call.page.text), 1)
    IN  {ParseFloat(runs[n]) : n \in 1..Len(runs)}

\* |t - v| / v < 0.1 on the exact values
WithinTenPercent(t, v) ==
    LET f == Max(t.f, v.f)
    IN  /\ v.m # 0
        /\ 10 * Abs(t.m * Pow10(f - t.f) - v.m * Pow10(f - v.f)) < v.m * Pow10(f - v.f)

\* C26: for a value-like claim whose page exists: if the entity text without
\* whitespace and commas is a substring of the page text without whitespace
\* and commas the result is verified/high; otherwise, if some bare number of
\* the page text is within 10% of the leading number of the entity text, it
\* is verified/medium; otherwise it is unverified/low.
C26_ValueMatchingDecision ==
    (call.op = "verify_fact" /\ call.fact.entity_type \in ValueTypes /\ PageFound) =>
        IF Contains(PageClean, EntityClean)
        THEN result.verified /\ result.confidence = "high"
        ELSE IF /\ LeadingNumber.ok
                /\ \E t \in PageNumbers : t.ok /\ WithinTenPercent(t, LeadingNumber)
        THEN result.verified /\ result.confidence = "medium"
        ELSE ~result.verified /\ result.confidence = "low"

----------------------------------------------------------------------------
(* The report of a chat turn with contradictions, checked under Spec       *)

\* C28: whenever detect returns a contradiction for the turn, the confidence
\* report returned has level low and the summary with the number of
\* contradictions, whatever level the scorer computed, while score and stats
\* stay as computed; without contradictions the report is the scorer's.
C28_ContradictionLowersReport ==
    [][\A r \in Requests :
          AppendAndRespond(r) =>
              LET scored == score_response(req[r].facts)
                  report == result'.confidence_report
                  n == Len(req[r].contradictions)
              IN  IF n > 0
                  THEN /\ report.overall_confidence = "low"
                       /\ report.summary = E_uncertain \o <<" ", " ">> \o IntToStr(n)
                                               \o S_contradictions_detected
                       /\ report.confidence_score = scored.confidence_score
                       /\ report.stats = scored.stats
                  ELSE report = scored]_vars

\* a turn whose one claim is verified with tier high (score 1.0, level high
\* by the scorer) and contradicts the history: the report says low
C28_Witness ==
    /\ call.op = "chat"
    /\ result.status = 200
    /\ Len(result.contradictions) = 1
    /\ result.confidence_report.confidence_score = 100
    /\ result.confidence_report.stats.high_confidence = 1
    /\ result.confidence_report.overall_confidence = "low"

\* C29: when no chat is running, each session's conversation alternates user
\* and model entries, starts with a user entry and holds a model reply for
\* every user message, after any successful chats, failed chats and deletes.
C29_ConversationAlternates ==
    LoopIdle =>
        \A s \in DOMAIN conversations :
            /\ Len(conversations[s]) % 2 = 0
            /\ \A i \in 1..Len(conversations[s]) :
                   conversations[s][i].role = IF i % 2 = 1 THEN "user" ELSE "model"

----------------------------------------------------------------------------
(* The pairs (verified, tier) of verifier output, checked under SpecVerify *)

\* the display buckets of _categorize_facts that hold the one claim scored
BucketsOf(claim) ==
    {b \in {"verified", "uncertain", "contradicted"} :
        Len(_categorize_facts(<<claim>>)[b]) = 1}

\* C30: every claim returned by verify_fact has (verified, tier) among
\* (true, high), (true, medium), (false, low), (false, unknown): verified is
\* true exactly when the tier is high or medium, so for verifier output the
\* scorer's verified, unverified and unknown counts sum to the total and the
\* claim falls in exactly one display bucket.
C30_VerifiedIffHighOrMedium ==
    call.op = "verify_fact" =>
        LET stats == _calculate_stats(<<result>>)
        IN  /\ <<result.verified, result.confidence>> \in
                   {<<TRUE, "high">>, <<TRUE, "medium">>, <<FALSE, "low">>, <<FALSE, "unknown">>}
            /\ result.verified <=> result.confidence \in {"high", "medium"}
            /\ stats.verified + stats.unverified + stats.unknown = stats.total_facts
            /\ stats.total_facts = 1
            /\ Cardinality(BucketsOf(result)) = 1

\* a claim found on the page by its similar number: verified with tier
\* medium, counted as verified and shown in the uncertain bucket
C30_Witness ==
    /\ call.op = "verify_fact"
    /\ call.fact = F_Bridge3
    /\ result.verified = TRUE
    /\ result.confidence = "medium"
    /\ _calculate_stats(<<result>>).verified = 1
    /\ BucketsOf(result) = {"uncertain"}

====
